---- MODULE Spec2Model ----
(***************************************************************************)
(* A model of the CHIP-8 virtual machine of src/src/chip8/core.rs and of   *)
(* the calls its host (src/src/managers/desktop_manager.rs) makes on it.   *)
(*                                                                         *)
(* The struct Chip8 is the record `self` the operators below take and      *)
(* return; the variables are its fields.  Three fields are added for what  *)
(* the process does besides changing the struct:                           *)
(*   fault           "none", or the panic that ended the process;          *)
(*   tones           the tones play_sound has played, each recorded as the  *)
(*                   value sound_timer_reg had when it was played;         *)
(*   overflow_checks whether the build panics on integer overflow (a debug *)
(*                   build) or wraps (a release build).                    *)
(* A panic leaves the fields as they were when it was raised.              *)
(*                                                                         *)
(* The two large arrays are held by their nonzero cells: memory, the       *)
(* array [u8; RAM_SIZE], is the function from the addresses of its nonzero *)
(* bytes to those bytes, and screen, the array [bool; 64 * 32], is the set *)
(* of the indices of its true pixels.  Rd, Wr, Lit and Flip read and write *)
(* one cell of them; every index is checked against the array's length    *)
(* where the source indexes the array.                                     *)
(***************************************************************************)
EXTENDS Integers, Sequences, FiniteSets, TLC

\* ------------------------------------------------------------ constants.rs
SCREEN_WIDTH == 64
SCREEN_HEIGHT == 32
NUM_REGS == 16
NUM_KEYS == 16
RAM_SIZE == 4096
STACK_SIZE == 16
START_ADDR == 512
FONTSET_SIZE == 80
TICKS_PER_FRAME == 7

FONTSET ==
  << 240, 144, 144, 144, 240,
      32,  96,  32,  32, 112,
     240,  16, 240, 128, 240,
     240,  16, 240,  16, 240,
     144, 144, 240,  16,  16,
     240, 128, 240,  16, 240,
     240, 128, 240, 144, 240,
     240,  16,  32,  64,  64,
     240, 144, 240, 144, 240,
     240, 144, 240,  16, 240,
     240, 144, 240, 144, 144,
     224, 144, 224, 144, 224,
     240, 128, 128, 128, 240,
     224, 144, 144, 144, 224,
     240, 128, 240, 128, 240,
     240, 128, 240, 128, 128 >>

\* ------------------------------------------------------------ machine words
U8 == 256
U16 == 65536

RECURSIVE BitAnd(_, _)
BitAnd(a, b) ==
  IF a = 0 \/ b = 0 THEN 0
  ELSE (a % 2) * (b % 2) + 2 * BitAnd(a \div 2, b \div 2)

RECURSIVE BitOr(_, _)
BitOr(a, b) ==
  IF a = 0 THEN b
  ELSE IF b = 0 THEN a
  ELSE (IF a % 2 = 1 \/ b % 2 = 1 THEN 1 ELSE 0) + 2 * BitOr(a \div 2, b \div 2)

RECURSIVE BitXor(_, _)
BitXor(a, b) ==
  IF a = 0 THEN b
  ELSE IF b = 0 THEN a
  ELSE ((a + b) % 2) + 2 * BitXor(a \div 2, b \div 2)

\* u8::overflowing_add / overflowing_sub / wrapping_add: <<result, overflowed>>
overflowing_add(a, b) == << (a + b) % U8, a + b >= U8 >>
overflowing_sub(a, b) == << (a - b) % U8, a < b >>
wrapping_add(a, b) == (a + b) % U8

Panic(self, why) == [self EXCEPT !.fault = why]

\* ------------------------------------------------------------ arrays
\* memory[a], for a < RAM_SIZE
Rd(m, a) == IF a \in DOMAIN m THEN m[a] ELSE 0
\* memory[a] = v, for a < RAM_SIZE
Wr(m, a, v) ==
  IF v = 0 THEN [b \in DOMAIN m \ {a} |-> m[b]]
  ELSE [b \in DOMAIN m \cup {a} |-> IF b = a THEN v ELSE m[b]]
\* screen[idx], for idx < SCREEN_WIDTH * SCREEN_HEIGHT
Lit(scr, idx) == idx \in scr
\* screen[idx] ^= true
Flip(scr, idx) == IF idx \in scr THEN scr \ {idx} ELSE scr \cup {idx}

\* [0; RAM_SIZE] with FONTSET copied over memory[..FONTSET_SIZE]
MemoryWithFont ==
  [a \in {b \in 0..(FONTSET_SIZE - 1) : FONTSET[b + 1] # 0} |-> FONTSET[a + 1]]
\* [false; SCREEN_WIDTH * SCREEN_HEIGHT]
BlankScreen == {}
\* [0; NUM_REGS], [0; STACK_SIZE], [false; NUM_KEYS]
ZeroRegs == [r \in 0..(NUM_REGS - 1) |-> 0]
ZeroStack == [s \in 0..(STACK_SIZE - 1) |-> 0]
NoKeys == [k \in 0..(NUM_KEYS - 1) |-> FALSE]

\* ------------------------------------------------------------ Chip8::new
new(checks) ==
  [ pc |-> START_ADDR,
    memory |-> MemoryWithFont,
    screen |-> BlankScreen,
    v_reg |-> ZeroRegs,
    i_reg |-> 0,
    stack_pointer |-> 0,
    stack |-> ZeroStack,
    keyboard |-> NoKeys,
    delay_timer_reg |-> 0,
    sound_timer_reg |-> 0,
    fault |-> "none",
    tones |-> << >>,
    overflow_checks |-> checks ]

\* reset leaving the keyboard as it is
reset_keeping_keys(self) ==
  [ self EXCEPT
      !.pc = START_ADDR,
      !.memory = MemoryWithFont,
      !.screen = BlankScreen,
      !.v_reg = ZeroRegs,
      !.i_reg = 0,
      !.stack_pointer = 0,
      !.stack = ZeroStack,
      !.delay_timer_reg = 0,
      !.sound_timer_reg = 0 ]

\* ------------------------------------------------------------ Chip8::reset
reset(self) ==
  [ self EXCEPT
      !.pc = START_ADDR,
      !.memory = MemoryWithFont,
      !.screen = BlankScreen,
      !.v_reg = ZeroRegs,
      !.i_reg = 0,
      !.stack_pointer = 0,
      !.stack = ZeroStack,
      !.keyboard = NoKeys,
      !.delay_timer_reg = 0,
      !.sound_timer_reg = 0 ]

\* ------------------------------------------------------------ Chip8::keypress
keypress(self, idx, pressed) ==
  IF idx >= NUM_KEYS THEN Panic(self, "index out of bounds")
  ELSE [self EXCEPT !.keyboard[idx] = pressed]

\* ------------------------------------------------------------ Chip8::load
\* dst[start..end].copy_from_slice(data): dst[start + i] = data[i] for every
\* index i of data (counted from 0), the other cells kept
copy_from_slice(dst, start, end, data) ==
  LET kept == {a \in DOMAIN dst : a < start \/ a >= end}
      set == {a \in start..(end - 1) : data[a - start + 1] # 0}
  IN [a \in kept \cup set |->
        IF a >= start /\ a < end THEN data[a - start + 1] ELSE dst[a]]

\* load copying the bytes that fit and dropping the rest
load_truncating(self, data) ==
  LET start == START_ADDR
      end == IF START_ADDR + Len(data) > RAM_SIZE THEN RAM_SIZE
             ELSE START_ADDR + Len(data)
  IN [self EXCEPT !.memory = copy_from_slice(self.memory, start, end, data)]

\* load blanking the display as it copies the program
load_clearing_screen(self, data) ==
  LET start == START_ADDR
      end == START_ADDR + Len(data)
  IN IF end > RAM_SIZE THEN Panic(self, "range end index out of range")
     ELSE [self EXCEPT !.memory = copy_from_slice(self.memory, start, end, data),
                       !.screen = BlankScreen]

\* memory[start..end] panics when end > RAM_SIZE, before any byte is copied.
load(self, data) ==
  LET start == START_ADDR
      end == START_ADDR + Len(data)
  IN IF end > RAM_SIZE THEN Panic(self, "range end index out of range")
     ELSE [self EXCEPT !.memory = copy_from_slice(self.memory, start, end, data)]

\* ------------------------------------------------------------ Chip8::push
push(self, val) ==
  IF self.stack_pointer >= STACK_SIZE THEN Panic(self, "index out of bounds")
  ELSE [self EXCEPT !.stack[self.stack_pointer] = val,
                    !.stack_pointer = self.stack_pointer + 1]

\* pop reading the slot before the pointer is moved down
pop_read_before_decrement(self) ==
  IF self.stack_pointer = 0 \/ self.stack_pointer >= STACK_SIZE
  THEN [self |-> Panic(self, "index out of bounds"), val |-> 0]
  ELSE [self |-> [self EXCEPT !.stack_pointer = self.stack_pointer - 1],
        val |-> self.stack[self.stack_pointer]]

\* ------------------------------------------------------------ Chip8::pop
\* [self |-> the machine after, val |-> the popped value].  With the stack
\* empty, `stack_pointer -= 1` panics in a build with overflow checks; without
\* them it wraps to 65535 and the indexing that follows panics.
pop(self) ==
  IF self.stack_pointer = 0
  THEN IF self.overflow_checks
       THEN [self |-> Panic(self, "attempt to subtract with overflow"), val |-> 0]
       ELSE [self |-> Panic([self EXCEPT !.stack_pointer = U16 - 1],
                            "index out of bounds"),
             val |-> 0]
  ELSE LET sp == self.stack_pointer - 1
       IN IF sp >= STACK_SIZE
          THEN [self |-> Panic([self EXCEPT !.stack_pointer = sp],
                               "index out of bounds"),
                val |-> 0]
          ELSE [self |-> [self EXCEPT !.stack_pointer = sp],
                val |-> self.stack[sp]]

\* the fetch taking the byte at pc as the low byte of the opcode
get_operation_code_little_endian(self) ==
  IF self.pc >= RAM_SIZE \/ self.pc + 1 >= RAM_SIZE
  THEN [self |-> Panic(self, "index out of bounds"), op |-> 0]
  ELSE [self |-> [self EXCEPT !.pc = self.pc + 2],
        op |-> Rd(self.memory, self.pc + 1) * 256 + Rd(self.memory, self.pc)]

\* ------------------------------------------------------------ Chip8::get_operation_code
\* [self |-> the machine after the fetch, op |-> the opcode]
get_operation_code(self) ==
  IF self.pc >= RAM_SIZE \/ self.pc + 1 >= RAM_SIZE
  THEN [self |-> Panic(self, "index out of bounds"), op |-> 0]
  ELSE LET higher_byte == Rd(self.memory, self.pc)
           lower_byte == Rd(self.memory, self.pc + 1)
       IN [self |-> [self EXCEPT !.pc = self.pc + 2],
           op |-> higher_byte * 256 + lower_byte]

\* the four hexadecimal digits of an opcode, and its operands
digit1(op) == op \div 4096
digit2(op) == (op \div 256) % 16
digit3(op) == (op \div 16) % 16
digit4(op) == op % 16
nnn_of(op) == op % 4096
nn_of(op) == op % 256

VF == 15

set_v(self, r, val) == [self EXCEPT !.v_reg[r] = val]
skip(self) == [self EXCEPT !.pc = self.pc + 2]

\* ------------------------------------------------------------ Chip8::execute
\* 00E0 - clear display
exec_00E0(self) == [self EXCEPT !.screen = BlankScreen]

\* 00EE - RET
exec_00EE(self) ==
  LET r == pop(self)
  IN IF r.self.fault # "none" THEN r.self
     ELSE [r.self EXCEPT !.pc = r.val]

\* 1nnn - JP addr
exec_1nnn(self, op) == [self EXCEPT !.pc = nnn_of(op)]

\* 2nnn - CALL addr
exec_2nnn(self, op) ==
  LET s1 == push(self, self.pc)
  IN IF s1.fault # "none" THEN s1
     ELSE [s1 EXCEPT !.pc = nnn_of(op)]

\* 3xkk - SE Vx, byte
exec_3xkk(self, op) ==
  IF self.v_reg[digit2(op)] = nn_of(op) THEN skip(self) ELSE self

\* 4xkk - SNE Vx, byte
exec_4xkk(self, op) ==
  IF self.v_reg[digit2(op)] # nn_of(op) THEN skip(self) ELSE self

\* 5xy0 - SE Vx, Vy
exec_5xy0(self, op) ==
  IF self.v_reg[digit2(op)] = self.v_reg[digit3(op)] THEN skip(self) ELSE self

\* 6xkk - LD Vx, byte
exec_6xkk(self, op) == set_v(self, digit2(op), nn_of(op))

\* 7xkk setting the carry flag as 8xy4 does
exec_7xkk_with_carry(self, op) ==
  LET x == digit2(op)
      r == overflowing_add(self.v_reg[x], nn_of(op))
  IN set_v(set_v(self, x, r[1]), VF, IF r[2] THEN 1 ELSE 0)

\* 7xkk - ADD Vx, byte
exec_7xkk(self, op) ==
  LET x == digit2(op)
      nn == nn_of(op)
  IN set_v(self, x, wrapping_add(self.v_reg[x], nn))

\* 8xy0 - LD Vx, Vy
exec_8xy0(self, op) == set_v(self, digit2(op), self.v_reg[digit3(op)])

\* 8xy1 - OR Vx, Vy
exec_8xy1(self, op) ==
  LET x == digit2(op)
      y == digit3(op)
  IN set_v(self, x, BitOr(self.v_reg[x], self.v_reg[y]))

\* 8xy2 - AND Vx, Vy
exec_8xy2(self, op) ==
  LET x == digit2(op)
      y == digit3(op)
  IN set_v(self, x, BitAnd(self.v_reg[x], self.v_reg[y]))

\* 8xy3 - XOR Vx, Vy
exec_8xy3(self, op) ==
  LET x == digit2(op)
      y == digit3(op)
  IN set_v(self, x, BitXor(self.v_reg[x], self.v_reg[y]))

\* 8xy4 with the flag written before the sum
exec_8xy4_flag_first(self, op) ==
  LET x == digit2(op)
      y == digit3(op)
      r == overflowing_add(self.v_reg[x], self.v_reg[y])
  IN set_v(set_v(self, VF, IF r[2] THEN 1 ELSE 0), x, r[1])

\* 8xy4 - ADD Vx, Vy
exec_8xy4(self, op) ==
  LET x == digit2(op)
      y == digit3(op)
      r == overflowing_add(self.v_reg[x], self.v_reg[y])
      new_vx == r[1]
      carry == r[2]
      new_vf == IF carry THEN 1 ELSE 0
  IN set_v(set_v(self, x, new_vx), VF, new_vf)

\* 8xy5 - SUB Vx, Vy
exec_8xy5(self, op) ==
  LET x == digit2(op)
      y == digit3(op)
      r == overflowing_sub(self.v_reg[x], self.v_reg[y])
      new_vx == r[1]
      borrow == r[2]
      new_vf == IF borrow THEN 0 ELSE 1
  IN set_v(set_v(self, x, new_vx), VF, new_vf)

\* 8xy6 with the bit taken after the shift
exec_8xy6_bit_after_shift(self, op) ==
  LET x == digit2(op)
      shifted == self.v_reg[x] \div 2
  IN set_v(set_v(self, x, shifted), VF, shifted % 2)

\* 8xy6 - SHR Vx
exec_8xy6(self, op) ==
  LET x == digit2(op)
      lsb == self.v_reg[x] % 2
  IN set_v(set_v(self, x, self.v_reg[x] \div 2), VF, lsb)

\* 8xy7 - SUBN Vx, Vy
exec_8xy7(self, op) ==
  LET x == digit2(op)
      y == digit3(op)
      r == overflowing_sub(self.v_reg[y], self.v_reg[x])
      new_vx == r[1]
      carry == r[2]
      new_vf == IF carry THEN 1 ELSE 0
  IN set_v(set_v(self, x, new_vx), VF, new_vf)

\* 8xyE - SHL Vx
exec_8xyE(self, op) ==
  LET x == digit2(op)
      msb == (self.v_reg[x] \div 128) % 2
  IN set_v(set_v(self, x, (self.v_reg[x] * 2) % U8), VF, msb)

\* 9xy0 - SNE Vx, Vy
exec_9xy0(self, op) ==
  IF self.v_reg[digit2(op)] # self.v_reg[digit3(op)] THEN skip(self) ELSE self

\* Annn - LD I, addr
exec_Annn(self, op) == [self EXCEPT !.i_reg = nnn_of(op)]

\* Bnnn - JP V0, addr
\* Bnnn jumping to nnn without adding V0
exec_Bnnn_ignoring_V0(self, op) == [self EXCEPT !.pc = nnn_of(op)]

exec_Bnnn(self, op) == [self EXCEPT !.pc = self.v_reg[0] + nnn_of(op)]

\* Cxkk - RND Vx, byte; `number` is the byte the generator returns
exec_Cxkk(self, op, number) ==
  set_v(self, digit2(op), BitAnd(number, nn_of(op)))

\* one pixel of a sprite: flipped |= screen[idx]; screen[idx] ^= true
plot(d, idx) ==
  IF idx >= SCREEN_WIDTH * SCREEN_HEIGHT
  THEN [d EXCEPT !.self = Panic(d.self, "index out of bounds")]
  ELSE [self |-> [d.self EXCEPT !.screen = Flip(d.self.screen, idx)],
        flipped |-> d.flipped \/ Lit(d.self.screen, idx)]

\* the columns of a row, each set bit lighting its pixel instead of toggling it
RECURSIVE draw_row_or(_, _, _, _, _, _)
draw_row_or(d, pixels, x_coord, y_coord, y_line, x_line) ==
  IF x_line >= 8 THEN d
  ELSE IF BitAnd(pixels, 128 \div (2 ^ x_line)) # 0
       THEN LET idx == ((x_coord + x_line) % SCREEN_WIDTH)
                       + SCREEN_WIDTH * ((y_coord + y_line) % SCREEN_HEIGHT)
                d1 == [self |-> [d.self EXCEPT !.screen = d.self.screen \cup {idx}],
                       flipped |-> d.flipped \/ Lit(d.self.screen, idx)]
            IN draw_row_or(d1, pixels, x_coord, y_coord, y_line, x_line + 1)
       ELSE draw_row_or(d, pixels, x_coord, y_coord, y_line, x_line + 1)

\* the columns of a row, the index wrapped instead of the column
RECURSIVE draw_row_wrap_index(_, _, _, _, _, _)
draw_row_wrap_index(d, pixels, x_coord, y_coord, y_line, x_line) ==
  IF x_line >= 8 THEN d
  ELSE IF BitAnd(pixels, 128 \div (2 ^ x_line)) # 0
       THEN LET idx == ((x_coord % SCREEN_WIDTH) + x_line
                        + SCREEN_WIDTH * ((y_coord + y_line) % SCREEN_HEIGHT))
                       % (SCREEN_WIDTH * SCREEN_HEIGHT)
            IN draw_row_wrap_index(plot(d, idx), pixels, x_coord, y_coord,
                                   y_line, x_line + 1)
       ELSE draw_row_wrap_index(d, pixels, x_coord, y_coord, y_line, x_line + 1)

\* Dxyn - DRW Vx, Vy, nibble.  The loops carry the machine and `flipped`, and
\* end at a panic.
\* the columns x_line..7 of one sprite row
RECURSIVE draw_row(_, _, _, _, _, _)
draw_row(d, pixels, x_coord, y_coord, y_line, x_line) ==
  IF x_line >= 8 \/ d.self.fault # "none" THEN d
  ELSE IF BitAnd(pixels, 128 \div (2 ^ x_line)) # 0
       THEN LET x == (x_coord + x_line) % SCREEN_WIDTH
                y == (y_coord + y_line) % SCREEN_HEIGHT
                idx == x + SCREEN_WIDTH * y
            IN draw_row(plot(d, idx), pixels, x_coord, y_coord, y_line, x_line + 1)
       ELSE draw_row(d, pixels, x_coord, y_coord, y_line, x_line + 1)

\* the rows y_line..num_of_rows_in_sprite-1
RECURSIVE draw_rows(_, _, _, _, _)
draw_rows(d, x_coord, y_coord, num_of_rows_in_sprite, y_line) ==
  IF y_line >= num_of_rows_in_sprite \/ d.self.fault # "none" THEN d
  ELSE LET addr == d.self.i_reg + y_line
       IN IF addr >= RAM_SIZE
          THEN [d EXCEPT !.self = Panic(d.self, "index out of bounds")]
          ELSE draw_rows(draw_row(d, Rd(d.self.memory, addr), x_coord, y_coord, y_line, 0),
                         x_coord, y_coord, num_of_rows_in_sprite, y_line + 1)

exec_Dxyn(self, op) ==
  LET x_coord == self.v_reg[digit2(op)]
      y_coord == self.v_reg[digit3(op)]
      num_of_rows_in_sprite == digit4(op)
      d == draw_rows([self |-> self, flipped |-> FALSE],
                     x_coord, y_coord, num_of_rows_in_sprite, 0)
  IN IF d.self.fault # "none" THEN d.self
     ELSE set_v(d.self, VF, IF d.flipped THEN 1 ELSE 0)

\* Ex9E - SKP Vx
exec_Ex9E(self, op) ==
  LET vx == self.v_reg[digit2(op)]
  IN IF vx >= NUM_KEYS THEN Panic(self, "index out of bounds")
     ELSE IF self.keyboard[vx] THEN skip(self) ELSE self

\* ExA1 - SKNP Vx
exec_ExA1(self, op) ==
  LET vx == self.v_reg[digit2(op)]
  IN IF vx >= NUM_KEYS THEN Panic(self, "index out of bounds")
     ELSE IF ~self.keyboard[vx] THEN skip(self) ELSE self

\* Fx07 - LD Vx, DT
exec_Fx07(self, op) == set_v(self, digit2(op), self.delay_timer_reg)

\* Fx0A that does not rewind PC when no key is pressed
exec_Fx0A_no_rewind(self, op) ==
  IF \E i \in 0..(NUM_KEYS - 1) : self.keyboard[i]
  THEN set_v(self, digit2(op), 1)
  ELSE self

\* Fx0A storing the index of the first pressed key
exec_Fx0A_key_index(self, op) ==
  IF \E i \in 0..(NUM_KEYS - 1) : self.keyboard[i]
  THEN set_v(self, digit2(op),
             CHOOSE k \in 0..(NUM_KEYS - 1) :
               self.keyboard[k] /\ \A j \in 0..(k - 1) : ~self.keyboard[j])
  ELSE [self EXCEPT !.pc = self.pc - 2]

\* Fx0A - LD Vx, K.  `keyboard[i] as u8` of a pressed key is 1.
exec_Fx0A(self, op) ==
  LET x == digit2(op)
      is_key_pressed == \E i \in 0..(NUM_KEYS - 1) : self.keyboard[i]
  IN IF is_key_pressed
     THEN LET i == CHOOSE k \in 0..(NUM_KEYS - 1) :
                     /\ self.keyboard[k]
                     /\ \A j \in 0..(k - 1) : ~self.keyboard[j]
          IN set_v(self, x, IF self.keyboard[i] THEN 1 ELSE 0)
     ELSE [self EXCEPT !.pc = self.pc - 2]

\* Fx15 - LD DT, Vx
exec_Fx15(self, op) == [self EXCEPT !.delay_timer_reg = self.v_reg[digit2(op)]]

\* Fx18 - LD ST, Vx
exec_Fx18(self, op) == [self EXCEPT !.sound_timer_reg = self.v_reg[digit2(op)]]

\* Fx1E - ADD I, Vx
exec_Fx1E(self, op) ==
  [self EXCEPT !.i_reg = (self.i_reg + self.v_reg[digit2(op)]) % U16]

\* Fx29 - LD F, Vx
exec_Fx29(self, op) == [self EXCEPT !.i_reg = self.v_reg[digit2(op)] * 5]

\* a store that leaves the cells of the font table alone
store_sparing_font(self, addr, val) ==
  IF self.fault # "none" THEN self
  ELSE IF addr >= RAM_SIZE THEN Panic(self, "index out of bounds")
  ELSE IF addr < FONTSET_SIZE THEN self
  ELSE [self EXCEPT !.memory = Wr(self.memory, addr, val)]

\* one indexed store memory[addr] = val
store(self, addr, val) ==
  IF self.fault # "none" THEN self
  ELSE IF addr >= RAM_SIZE THEN Panic(self, "index out of bounds")
  ELSE [self EXCEPT !.memory = Wr(self.memory, addr, val)]

\* Fx33 storing Vx / 10 as the tens without taking it modulo 10
exec_Fx33_tens_unreduced(self, op) ==
  LET vx == self.v_reg[digit2(op)]
  IN store(store(store(self, self.i_reg, vx \div 100),
                 self.i_reg + 1, vx \div 10),
           self.i_reg + 2, vx % 10)

\* Fx33 - LD B, Vx.  The f32 quotients and remainders of a value 0..255,
\* floored, are its decimal digits.
exec_Fx33(self, op) ==
  LET vx == self.v_reg[digit2(op)]
      hundreds == vx \div 100
      tens == (vx \div 10) % 10
      ones == vx % 10
  IN store(store(store(self, self.i_reg, hundreds),
                 self.i_reg + 1, tens),
           self.i_reg + 2, ones)

\* Fx55 - LD [I], Vx: the stores of registers i..x
RECURSIVE store_regs(_, _, _)
store_regs(self, x, i) ==
  IF i > x \/ self.fault # "none" THEN self
  ELSE store_regs(store(self, self.i_reg + i, self.v_reg[i]), x, i + 1)

\* Fx55 leaving I past the last cell stored, as the first interpreters did
exec_Fx55_advancing_I(self, op) ==
  LET r == store_regs(self, digit2(op), 0)
  IN IF r.fault # "none" THEN r
     ELSE [r EXCEPT !.i_reg = (r.i_reg + digit2(op) + 1) % U16]

exec_Fx55(self, op) == store_regs(self, digit2(op), 0)

\* Fx65 - LD Vx, [I]: the loads of registers i..x
RECURSIVE load_regs(_, _, _)
load_regs(self, x, i) ==
  IF i > x THEN self
  ELSE IF self.i_reg + i >= RAM_SIZE THEN Panic(self, "index out of bounds")
  ELSE load_regs(set_v(self, i, Rd(self.memory, self.i_reg + i)), x, i + 1)

exec_Fx65(self, op) == load_regs(self, digit2(op), 0)

\* the match of execute, its arms in the order of the source
execute(self, op, number) ==
  LET d1 == digit1(op)
      d2 == digit2(op)
      d3 == digit3(op)
      d4 == digit4(op)
  IN IF d1 = 0 /\ d2 = 0 /\ d3 = 0 /\ d4 = 0 THEN self
     ELSE IF d1 = 0 /\ d2 = 0 /\ d3 = 14 /\ d4 = 0 THEN exec_00E0(self)
     ELSE IF d1 = 0 /\ d2 = 0 /\ d3 = 14 /\ d4 = 14 THEN exec_00EE(self)
     ELSE IF d1 = 1 THEN exec_1nnn(self, op)
     ELSE IF d1 = 2 THEN exec_2nnn(self, op)
     ELSE IF d1 = 3 THEN exec_3xkk(self, op)
     ELSE IF d1 = 4 THEN exec_4xkk(self, op)
     ELSE IF d1 = 5 /\ d4 = 0 THEN exec_5xy0(self, op)
     ELSE IF d1 = 6 THEN exec_6xkk(self, op)
     ELSE IF d1 = 7 THEN exec_7xkk(self, op)
     ELSE IF d1 = 8 /\ d4 = 0 THEN exec_8xy0(self, op)
     ELSE IF d1 = 8 /\ d4 = 1 THEN exec_8xy1(self, op)
     ELSE IF d1 = 8 /\ d4 = 2 THEN exec_8xy2(self, op)
     ELSE IF d1 = 8 /\ d4 = 3 THEN exec_8xy3(self, op)
     ELSE IF d1 = 8 /\ d4 = 4 THEN exec_8xy4(self, op)
     ELSE IF d1 = 8 /\ d4 = 5 THEN exec_8xy5(self, op)
     ELSE IF d1 = 8 /\ d4 = 6 THEN exec_8xy6(self, op)
     ELSE IF d1 = 8 /\ d4 = 7 THEN exec_8xy7(self, op)
     ELSE IF d1 = 8 /\ d4 = 14 THEN exec_8xyE(self, op)
     ELSE IF d1 = 9 /\ d4 = 0 THEN exec_9xy0(self, op)
     ELSE IF d1 = 10 THEN exec_Annn(self, op)
     ELSE IF d1 = 11 THEN exec_Bnnn(self, op)
     ELSE IF d1 = 12 THEN exec_Cxkk(self, op, number)
     ELSE IF d1 = 13 THEN exec_Dxyn(self, op)
     ELSE IF d1 = 14 /\ d3 = 9 /\ d4 = 14 THEN exec_Ex9E(self, op)
     ELSE IF d1 = 14 /\ d3 = 10 /\ d4 = 1 THEN exec_ExA1(self, op)
     ELSE IF d1 = 15 /\ d3 = 0 /\ d4 = 7 THEN exec_Fx07(self, op)
     ELSE IF d1 = 15 /\ d3 = 0 /\ d4 = 10 THEN exec_Fx0A(self, op)
     ELSE IF d1 = 15 /\ d3 = 1 /\ d4 = 5 THEN exec_Fx15(self, op)
     ELSE IF d1 = 15 /\ d3 = 1 /\ d4 = 8 THEN exec_Fx18(self, op)
     ELSE IF d1 = 15 /\ d3 = 1 /\ d4 = 14 THEN exec_Fx1E(self, op)
     ELSE IF d1 = 15 /\ d3 = 2 /\ d4 = 9 THEN exec_Fx29(self, op)
     ELSE IF d1 = 15 /\ d3 = 3 /\ d4 = 3 THEN exec_Fx33(self, op)
     ELSE IF d1 = 15 /\ d3 = 5 /\ d4 = 5 THEN exec_Fx55(self, op)
     ELSE IF d1 = 15 /\ d3 = 6 /\ d4 = 5 THEN exec_Fx65(self, op)
     ELSE Panic(self, "not implemented")

\* tick going on to the next instruction when the opcode matches no arm
tick_ignoring_unknown(self, number) ==
  LET f == get_operation_code(self)
      r == execute(f.self, f.op, number)
  IN IF f.self.fault # "none" THEN f.self
     ELSE IF r.fault = "not implemented" THEN f.self
     ELSE r

\* ------------------------------------------------------------ Chip8::tick
tick(self, number) ==
  LET f == get_operation_code(self)
  IN IF f.self.fault # "none" THEN f.self
     ELSE execute(f.self, f.op, number)

\* ------------------------------------------------------------ Chip8::play_sound
\* What play_sound finds: the file SOUND_FILE and the audio device as they
\* should be, or the file missing, the file no sound the decoder knows, no
\* default audio device, or no sink on the device
Audio == {"ok", "no file", "not decodable", "no device", "no sink"}

\* The tone is played by sink.append, which the four panics before it keep
\* from being reached; the struct is not changed.
play_sound(self, audio) ==
  CASE audio = "no file" -> Panic(self, "Could not open Audio File")
    [] audio = "not decodable" -> Panic(self, "Could not decode File")
    [] audio = "no device" -> Panic(self, "Could not access default audio device")
    [] audio = "no sink" -> Panic(self, "called Result::unwrap() on an Err value")
    [] OTHER -> [self EXCEPT !.tones = Append(self.tones, self.sound_timer_reg)]

\* tick_timers requesting the tone on every call that finds the timer running
tick_timers_tone_while_nonzero(self, audio) ==
  LET s1 == IF self.delay_timer_reg > 0
            THEN [self EXCEPT !.delay_timer_reg = self.delay_timer_reg - 1]
            ELSE self
  IN IF s1.sound_timer_reg > 0
     THEN LET s2 == play_sound(s1, audio)
          IN IF s2.fault # "none" THEN s2
             ELSE [s2 EXCEPT !.sound_timer_reg = s2.sound_timer_reg - 1]
     ELSE s1

\* ------------------------------------------------------------ Chip8::tick_timers
tick_timers(self, audio) ==
  LET s1 == IF self.delay_timer_reg > 0
            THEN [self EXCEPT !.delay_timer_reg = self.delay_timer_reg - 1]
            ELSE self
  IN IF s1.sound_timer_reg > 0
     THEN LET s2 == IF s1.sound_timer_reg = 1 THEN play_sound(s1, audio) ELSE s1
          IN IF s2.fault # "none" THEN s2
             ELSE [s2 EXCEPT !.sound_timer_reg = s2.sound_timer_reg - 1]
     ELSE s1

\* ------------------------------------------------------------ the state
VARIABLES screen, memory, v_reg, pc, i_reg, delay_timer_reg, sound_timer_reg,
          stack, stack_pointer, keyboard,
          fault, tones, overflow_checks,
          calls, last_call, last_op, last_data, prev,
          host_pc, args, games, game_path, printed,
          polled, frame_tick, frames, ticks_made, timer_ticks_made, canvas

\* calls      the number of calls made on the machine so far
\* last_call  the last call made: "new", "load", "keypress", "tick",
\*            "tick_timers" or "reset"
\* last_op    the opcode the last call fetched, when it was a tick that fetched one
\* last_data  the bytes the last call was given, when it was a load
\* prev       the machine as it was before the last call
\*
\* The host, main with DesktopGameManager::new and start_game_loop, which
\* owns the machine; Chip8::new(), which takes nothing from the host, has
\* the machine's fields from the start:
\* host_pc    where it is: "main", "choose_game", "read_dir", "read_line",
\*            "read_game_rom", then in 'gameloop "poll_iter", "tick",
\*            "tick_timers", "draw_screen", and "break" after it
\* args       env::args(), once collected
\* games      the paths choose_game has listed
\* game_path  the path choose_game returned
\* printed    the lines printed so far
\* polled     the events poll_iter has yielded in this iteration of 'gameloop
\* frame_tick the ticks the for loop has made in this iteration
\* frames     the iterations of 'gameloop that have come to their end
\* ticks_made, timer_ticks_made
\*            the calls of tick and of tick_timers the host has made
\* canvas     the display as draw_screen last read it

vars == << screen, memory, v_reg, pc, i_reg, delay_timer_reg, sound_timer_reg,
           stack, stack_pointer, keyboard, fault, tones, overflow_checks,
           calls, last_call, last_op, last_data, prev,
           host_pc, args, games, game_path, printed,
           polled, frame_tick, frames, ticks_made, timer_ticks_made, canvas >>

host_vars == << host_pc, args, games, game_path, printed,
                polled, frame_tick, frames, ticks_made, timer_ticks_made, canvas >>

Self ==
  [ pc |-> pc, memory |-> memory, screen |-> screen, v_reg |-> v_reg,
    i_reg |-> i_reg, stack_pointer |-> stack_pointer, stack |-> stack,
    keyboard |-> keyboard, delay_timer_reg |-> delay_timer_reg,
    sound_timer_reg |-> sound_timer_reg, fault |-> fault, tones |-> tones,
    overflow_checks |-> overflow_checks ]

\* the call `name`, given `data`, has taken the machine to `r`
Machine(r, name, op, data) ==
  /\ pc' = r.pc
  /\ memory' = r.memory
  /\ screen' = r.screen
  /\ v_reg' = r.v_reg
  /\ i_reg' = r.i_reg
  /\ stack_pointer' = r.stack_pointer
  /\ stack' = r.stack
  /\ keyboard' = r.keyboard
  /\ delay_timer_reg' = r.delay_timer_reg
  /\ sound_timer_reg' = r.sound_timer_reg
  /\ fault' = r.fault
  /\ tones' = r.tones
  /\ overflow_checks' = r.overflow_checks
  /\ calls' = calls + 1
  /\ last_call' = name
  /\ last_op' = op
  /\ last_data' = data
  /\ prev' = Self

\* the same, the call being made on the machine alone and not by the host
Called(r, name, op, data) == Machine(r, name, op, data) /\ UNCHANGED host_vars

\* the call `name`, which takes no bytes, has taken the machine to `r`
Becomes(r, name, op) == Called(r, name, op, << >>)

\* main: Chip8::new(), in either build
Init ==
  \E checks \in BOOLEAN :
    LET c == new(checks)
    IN /\ pc = c.pc
       /\ memory = c.memory
       /\ screen = c.screen
       /\ v_reg = c.v_reg
       /\ i_reg = c.i_reg
       /\ stack_pointer = c.stack_pointer
       /\ stack = c.stack
       /\ keyboard = c.keyboard
       /\ delay_timer_reg = c.delay_timer_reg
       /\ sound_timer_reg = c.sound_timer_reg
       /\ fault = c.fault
       /\ tones = c.tones
       /\ overflow_checks = c.overflow_checks
       /\ calls = 0
       /\ last_call = "new"
       /\ last_op = -1
       /\ last_data = << >>
       /\ prev = c
       /\ host_pc = "main"
       /\ args = << >>
       /\ games = << >>
       /\ game_path = ""
       /\ printed = << >>
       /\ polled = 0
       /\ frame_tick = 0
       /\ frames = 0
       /\ ticks_made = 0
       /\ timer_ticks_made = 0
       /\ canvas = BlankScreen

\* the opcode at pc, or -1 when the fetch would panic
NextOp(self) ==
  IF self.pc + 1 >= RAM_SIZE THEN -1
  ELSE Rd(self.memory, self.pc) * 256 + Rd(self.memory, self.pc + 1)

\* chip8.tick(); only Cxkk draws a byte from the generator
Tick(limit) ==
  /\ fault = "none"
  /\ calls < limit
  /\ \E number \in (IF digit1(NextOp(Self)) = 12 THEN 0..(U8 - 1) ELSE {0}) :
       Becomes(tick(Self, number), "tick", NextOp(Self))

\* chip8.load(&game_data)
Load(roms) ==
  /\ fault = "none"
  /\ \E data \in roms : Called(load(Self, data), "load", -1, data)

\* ------------------------------------------------------------ arithmetic programs
\* The byte values tried: those within ByteSpread of 0, 128 and 255.
ByteSpread == 1
ByteSamples ==
  { b \in 0..(U8 - 1) : \/ b <= ByteSpread
                        \/ b >= U8 - 1 - ByteSpread
                        \/ (b >= 128 - ByteSpread /\ b <= 128 + ByteSpread) }
RegSamples == {0, 1, 14, 15}
AluOps == {4, 5, 6, 7, 14}

\* LD Vx, a; LD Vy, b; then 8xy<k> or 7x<b>
AluRoms ==
  { << 96 + x, a, 96 + y, b, 128 + x, 16 * y + k >> :
      x \in RegSamples, y \in RegSamples, a \in ByteSamples, b \in ByteSamples,
      k \in AluOps }
  \cup
  { << 96 + x, a, 96 + y, b, 112 + x, kk >> :
      x \in RegSamples, y \in RegSamples, a \in ByteSamples, b \in {1, 255},
      kk \in ByteSamples }

AluSteps == 4

LoadAlu == calls = 0 /\ Load(AluRoms)
TickAlu == calls >= 1 /\ Tick(AluSteps)
NextAlu == LoadAlu \/ TickAlu
SpecAlu == Init /\ [][NextAlu]_vars

\* ------------------------------------------------------------ arithmetic claims
\* the last call was a tick that fetched an opcode d1 _ _ d4 and did not panic
Ticked(d1, d4) ==
  /\ last_call = "tick"
  /\ fault = "none"
  /\ digit1(last_op) = d1
  /\ digit4(last_op) = d4

\* every register outside `changed` is as it was before the last call
RegsKeptExcept(changed) ==
  \A r \in 0..(NUM_REGS - 1) \ changed : v_reg[r] = prev.v_reg[r]

\* C1: after 8xy7 with a = Vx and b = Vy before it, Vx = (b - a) mod 256 (for
\* x other than F, where the flag takes the register) and VF = 1 if and only
\* if b >= a (no borrow), otherwise VF = 0.
C1_SubnNoBorrowFlag ==
  Ticked(8, 7) =>
    LET x == digit2(last_op)
        y == digit3(last_op)
        a == prev.v_reg[x]
        b == prev.v_reg[y]
    IN /\ (x # VF => v_reg[x] = (b - a) % 256)
       /\ v_reg[VF] = (IF b >= a THEN 1 ELSE 0)

\* C2: after 8xy4, VF = 1 iff a + b > 255 and, for x other than F,
\* Vx = (a + b) mod 256; after 8xy5, VF = 1 iff a >= b and, for x other than
\* F, Vx = (a - b) mod 256; x = y and x = F included.
C2_AddSubFlags ==
  /\ Ticked(8, 4) =>
       LET x == digit2(last_op)
           y == digit3(last_op)
           a == prev.v_reg[x]
           b == prev.v_reg[y]
       IN /\ v_reg[VF] = (IF a + b > 255 THEN 1 ELSE 0)
          /\ (x # VF => v_reg[x] = (a + b) % 256)
  /\ Ticked(8, 5) =>
       LET x == digit2(last_op)
           y == digit3(last_op)
           a == prev.v_reg[x]
           b == prev.v_reg[y]
       IN /\ v_reg[VF] = (IF a >= b THEN 1 ELSE 0)
          /\ (x # VF => v_reg[x] = (a - b) % 256)

\* an 8xy4 that carried, into a register other than VF
C2_Witness ==
  /\ Ticked(8, 4)
  /\ digit2(last_op) # VF
  /\ digit2(last_op) # digit3(last_op)
  /\ prev.v_reg[digit2(last_op)] + prev.v_reg[digit3(last_op)] > 255
  /\ v_reg[VF] = 1
  /\ v_reg[digit2(last_op)] < prev.v_reg[digit2(last_op)]

\* C3: after 8xy6, VF = a mod 2 and (x other than F) Vx = a div 2; after 8xyE,
\* VF = a div 128 and (x other than F) Vx = 2a mod 256, with a = Vx before the
\* shift.  Vy has no part in it: the result is a function of a alone, and no
\* register but Vx and VF is written.
C3_ShiftPreShiftBit ==
  /\ Ticked(8, 6) =>
       LET x == digit2(last_op)
           a == prev.v_reg[x]
       IN /\ v_reg[VF] = a % 2
          /\ (x # VF => v_reg[x] = a \div 2)
          /\ RegsKeptExcept({x, VF})
  /\ Ticked(8, 14) =>
       LET x == digit2(last_op)
           a == prev.v_reg[x]
       IN /\ v_reg[VF] = a \div 128
          /\ (x # VF => v_reg[x] = (2 * a) % 256)
          /\ RegsKeptExcept({x, VF})

\* an 8xy6 of an odd value whose half is even, Vy being another register
\* with another value
C3_Witness ==
  /\ Ticked(8, 6)
  /\ digit2(last_op) # VF
  /\ digit3(last_op) \notin {digit2(last_op), VF}
  /\ prev.v_reg[digit2(last_op)] % 4 = 1
  /\ prev.v_reg[digit3(last_op)] # prev.v_reg[digit2(last_op)]
  /\ v_reg[VF] = 1
  /\ v_reg[digit3(last_op)] = prev.v_reg[digit3(last_op)]

\* C4: after 7xkk, Vx = (a + kk) mod 256 and every other register, VF
\* included, keeps its value.
C4_AddByteNoFlag ==
  (last_call = "tick" /\ fault = "none" /\ digit1(last_op) = 7) =>
    LET x == digit2(last_op)
        a == prev.v_reg[x]
        kk == nn_of(last_op)
    IN /\ v_reg[x] = (a + kk) % 256
       /\ RegsKeptExcept({x})

\* a 7xkk that wrapped, with VF holding 255 before and after
C4_Witness ==
  /\ last_call = "tick" /\ fault = "none" /\ digit1(last_op) = 7
  /\ digit2(last_op) # VF
  /\ prev.v_reg[digit2(last_op)] + nn_of(last_op) > 255
  /\ prev.v_reg[VF] = 255
  /\ v_reg[VF] = 255

\* ------------------------------------------------------------ drawing programs
\* sprite rows, by kind: blank, solid, the two end bits on every other row,
\* and rows that differ from one another
SpriteRow(kind, r) ==
  IF kind = 0 THEN 0
  ELSE IF kind = 1 THEN 255
  ELSE IF kind = 2 THEN (IF r % 2 = 0 THEN 129 ELSE 0)
  ELSE (37 * r + 24) % 256
SpriteKinds == 0..3
DrawRegs == { <<0, 1>>, <<1, 0>>, <<2, 2>>, <<15, 0>>, <<0, 15>> }
DrawXs == {0, 60, 63, 64, 255}
DrawYs == {0, 25, 31, 32, 255}
DrawRowCounts == {0, 1, 5, 15}

\* LD Vx, a; LD Vy, b; LD I, 0x212; DRW; DRW; DRW; ADD Vx, 3; DRW; JP 0x210;
\* then the n sprite rows, at 0x212
DrawRoms ==
  { << 96 + xy[1], a, 96 + xy[2], b, 162, 18,
       208 + xy[1], 16 * xy[2] + n, 208 + xy[1], 16 * xy[2] + n,
       208 + xy[1], 16 * xy[2] + n, 112 + xy[1], 3,
       208 + xy[1], 16 * xy[2] + n, 18, 16 >>
    \o [r \in 1..n |-> SpriteRow(kind, r - 1)] :
      xy \in DrawRegs, a \in DrawXs, b \in DrawYs, n \in DrawRowCounts,
      kind \in SpriteKinds }

DrawSteps == 10

LoadDraw == calls = 0 /\ Load(DrawRoms)
TickDraw == calls >= 1 /\ Tick(DrawSteps)
NextDraw == LoadDraw \/ TickDraw
SpecDraw == Init /\ [][NextDraw]_vars

\* the last call was a Dxyn that did not panic
Drew == last_call = "tick" /\ fault = "none" /\ digit1(last_op) = 13

\* the sprite the last Dxyn drew has a set bit
SpriteHasBit ==
  \E r \in 0..(digit4(last_op) - 1) : Rd(prev.memory, prev.i_reg + r) # 0

\* the pixels under the set bits of the sprite the last Dxyn drew: bit c,
\* counted from the most significant, of row r is at column (Vx + c) mod 64
\* and row (Vy + r) mod 32
SpritePixels ==
  LET vx == prev.v_reg[digit2(last_op)]
      vy == prev.v_reg[digit3(last_op)]
  IN { ((vx + rc[2]) % 64) + 64 * ((vy + rc[1]) % 32) :
         rc \in { q \in (0..(digit4(last_op) - 1)) \X (0..7) :
                    (Rd(prev.memory, prev.i_reg + q[1]) \div (2 ^ (7 - q[2]))) % 2 = 1 } }

\* C5 as stated: a Dxyn on an all-false display, followed by the same Dxyn,
\* sets VF = 0, and the second sets VF = 1 and leaves the display all-false,
\* for every x, y and n.
C5_DrawTwiceAsStated ==
  (Drew /\ prev.screen = {} /\ NextOp(Self) = last_op) =>
    /\ v_reg[VF] = 0
    /\ LET s2 == tick(Self, 0)
       IN s2.fault = "none" /\ s2.screen = {} /\ s2.v_reg[VF] = 1

\* C5 amended: the same, for a sprite with at least one set bit and, when x
\* or y is F, VF = 0 before the first draw; a sprite with no set bit (n = 0
\* or all rows 0) leaves the display all-false and VF = 0 both times.
C5_DrawTwice ==
  (Drew /\ prev.screen = {} /\ NextOp(Self) = last_op
        /\ (VF \in {digit2(last_op), digit3(last_op)} => prev.v_reg[VF] = 0)) =>
    /\ v_reg[VF] = 0
    /\ LET s2 == tick(Self, 0)
       IN /\ s2.fault = "none"
          /\ s2.screen = {}
          /\ s2.v_reg[VF] = (IF SpriteHasBit THEN 1 ELSE 0)

\* the second of two equal draws of a sprite with set bits has cleared the
\* display again and reported the collision
C5_Witness ==
  /\ Drew
  /\ SpriteHasBit
  /\ prev.pc >= 2
  /\ NextOp([prev EXCEPT !.pc = prev.pc - 2]) = last_op
  /\ NextOp(prev) = last_op
  /\ prev.screen # {}
  /\ prev.v_reg[VF] = 0
  /\ screen = {}
  /\ v_reg[VF] = 1

\* C6: a Dxyn toggles exactly the pixels under the set bits of its sprite,
\* columns taken modulo 64 and rows modulo 32, and leaves every other pixel;
\* every pixel of the display is inside the 64 x 32 grid.
C6_SpriteWraps ==
  /\ screen \subseteq 0..(64 * 32 - 1)
  /\ Drew =>
       screen = (prev.screen \ SpritePixels) \cup (SpritePixels \ prev.screen)

\* a draw that wrapped on both axes: from column 63 to column 0 and from
\* row 31 to row 0, over pixels already lit and pixels not
C6_Witness ==
  /\ Drew
  /\ prev.v_reg[digit2(last_op)] % 64 > 56
  /\ (prev.v_reg[digit3(last_op)] % 32) + digit4(last_op) > 32
  /\ \E p \in SpritePixels : p % 64 = 0 /\ p \div 64 = 0
  /\ \E p \in SpritePixels : p % 64 = 63 /\ p \div 64 = 31
  /\ SpritePixels \cap prev.screen # {}
  /\ SpritePixels \ prev.screen # {}
  /\ screen # {}

\* ------------------------------------------------------------ subroutine programs
\* the ROM that holds the opcodes `ops` (a function from addresses, 0x200 and
\* up, to opcodes) and zeros elsewhere
RomByte(ops, a) ==
  IF a \in DOMAIN ops THEN ops[a] \div 256
  ELSE IF (a - 1) \in DOMAIN ops THEN ops[a - 1] % 256
  ELSE 0
RomEnd(ops) == CHOOSE a \in DOMAIN ops : \A b \in DOMAIN ops : b <= a
RomOf(ops) ==
  [i \in 1..(RomEnd(ops) + 2 - START_ADDR) |-> RomByte(ops, START_ADDR + i - 1)]

\* d nested subroutines: 0x200 CALL sub 1; 0x202 JP 0x202; sub i, at
\* 0x210 + 4(i - 1), is CALL sub i+1; RET, and sub d is RET
SubAt(i) == 528 + 4 * (i - 1)
NestedOps(d) ==
  [a \in {512, 514} \cup {SubAt(i) : i \in 1..d} \cup {SubAt(i) + 2 : i \in 1..(d - 1)} |->
     IF a = 512 THEN 8192 + SubAt(1)
     ELSE IF a = 514 THEN 4096 + 514
     ELSE IF a \in {SubAt(i) : i \in 1..(d - 1)} THEN 8192 + a + 4
     ELSE 238]

\* JP p (when p is not 0x200); at p, CALL nnn; at nnn, RET
DirectOps(p, nnn) ==
  [a \in {512, p, nnn} |->
     IF a = p THEN 8192 + nnn
     ELSE IF a = nnn THEN 238
     ELSE 4096 + p]

MaxDepth == 16
CallTargets ==
  { <<512, 514>>, <<512, 767>>, <<512, 1024>>, <<512, 4094>>,
    <<517, 519>>, <<517, 4094>>, <<520, 523>> }
CallRoms ==
  { RomOf(NestedOps(d)) : d \in 1..MaxDepth }
  \cup { RomOf(DirectOps(t[1], t[2])) : t \in CallTargets }

CallSteps == 36

LoadCall == calls = 0 /\ Load(CallRoms)
TickCall == calls >= 1 /\ Tick(CallSteps)
NextCall == LoadCall \/ TickCall
SpecCall == Init /\ [][NextCall]_vars

\* the opcode at address a of the machine's memory
OpAt(a) == Rd(memory, a) * 256 + Rd(memory, a + 1)

\* C7: (round trip) where the next instruction, at p, is 2nnn, fewer than 16
\* return addresses are stacked and the instruction at nnn is 00EE, the two
\* ticks that follow leave PC = p + 2 and the stack pointer and every stacked
\* return address as they were; (last in, first out) a 2nnn stacks p + 2 on
\* top of the addresses stacked before it, and a 00EE takes the topmost one.
C7_CallReturn ==
  /\ ( /\ fault = "none"
       /\ digit1(NextOp(Self)) = 2
       /\ stack_pointer < 16
       /\ nnn_of(NextOp(Self)) + 1 < RAM_SIZE
       /\ OpAt(nnn_of(NextOp(Self))) = 238 ) =>
       LET s2 == tick(tick(Self, 0), 0)
       IN /\ s2.fault = "none"
          /\ s2.pc = pc + 2
          /\ s2.stack_pointer = stack_pointer
          /\ \A i \in 0..(stack_pointer - 1) : s2.stack[i] = stack[i]
  /\ (last_call = "tick" /\ fault = "none" /\ digit1(last_op) = 2) =>
       /\ stack_pointer = prev.stack_pointer + 1
       /\ stack[prev.stack_pointer] = prev.pc + 2
       /\ pc = nnn_of(last_op)
       /\ \A i \in 0..(prev.stack_pointer - 1) : stack[i] = prev.stack[i]
  /\ (last_call = "tick" /\ fault = "none" /\ last_op = 238) =>
       /\ stack_pointer = prev.stack_pointer - 1
       /\ pc = prev.stack[prev.stack_pointer - 1]
       /\ \A i \in 0..(stack_pointer - 1) : stack[i] = prev.stack[i]

\* a 00EE that followed its 2nnn at once, fifteen return addresses being
\* stacked under the one it took: PC is just after that 2nnn
C7_Witness ==
  /\ last_call = "tick" /\ fault = "none" /\ last_op = 238
  /\ stack_pointer = 15
  /\ prev.stack_pointer = 16
  /\ pc >= 2
  /\ OpAt(pc - 2) = 8192 + prev.pc
  /\ stack[15] = pc
  /\ \A i \in 0..14 : stack[i] # 0 /\ stack[i] # pc

\* ------------------------------------------------------------ the machine's interface
\* chip8.keypress(k, pressed), for a key key2btn maps to
Keypress(limit) ==
  /\ fault = "none"
  /\ calls < limit
  /\ \E idx \in 0..(NUM_KEYS - 1), pressed \in BOOLEAN :
       /\ idx \in {0, 15}
       /\ Becomes(keypress(Self, idx, pressed), "keypress", -1)

\* chip8.tick_timers(); only a sound timer at 1 has it look for the audio
TickTimers(limit) ==
  /\ fault = "none"
  /\ calls < limit
  /\ \E audio \in (IF sound_timer_reg = 1 THEN Audio ELSE {"ok"}) :
       Becomes(tick_timers(Self, audio), "tick_timers", -1)

\* chip8.reset()
Reset(limit) ==
  /\ fault = "none"
  /\ calls < limit
  /\ Becomes(reset(Self), "reset", -1)

\* The programs the interface is driven with:
\*   LD V0, 2; LD ST, V0; LD DT, V0; LD V0, 0; LD ST, V0
\*   LD V1, 1; LD DT, V1; LD ST, V1
\*   LD V3, K; JP 0x200
\*   DRW V0, V0, 5 (the glyph at I = 0); CLS
ApiRoms ==
  { << 96, 2, 240, 24, 240, 21, 96, 0, 240, 24 >>,
    << 97, 1, 241, 21, 241, 24 >>,
    << 243, 10, 18, 0 >>,
    << 208, 5, 0, 224 >> }

MaxCalls == 7

LoadApi == calls < MaxCalls /\ Load(ApiRoms)
TickApi == Tick(MaxCalls)
KeypressApi == Keypress(MaxCalls)
TickTimersApi == TickTimers(MaxCalls)
ResetApi == Reset(MaxCalls)
Next == LoadApi \/ TickApi \/ KeypressApi \/ TickTimersApi \/ ResetApi
Spec == Init /\ [][Next]_vars

\* ------------------------------------------------------------ timers and tone
\* never below 0, and what one tick_timers that returns does to the two
\* timers and to the tone: it is requested by the call that finds the sound
\* timer at 1, while the timer still reads 1, and by no call that finds it
\* above 1 or at 0
TimersStep ==
  /\ delay_timer_reg \in 0..255
  /\ sound_timer_reg \in 0..255
  /\ (last_call = "tick_timers" /\ fault = "none") =>
       /\ delay_timer_reg =
            (IF prev.delay_timer_reg > 0 THEN prev.delay_timer_reg - 1 ELSE 0)
       /\ sound_timer_reg =
            (IF prev.sound_timer_reg > 0 THEN prev.sound_timer_reg - 1 ELSE 0)
       /\ tones = (IF prev.sound_timer_reg = 1 THEN Append(prev.tones, 1)
                   ELSE prev.tones)

\* a tick_timers that play_sound ended with a panic: it found the sound timer
\* at 1 and has left it there, after the delay timer's decrement, and no tone
\* was played
TimersPanic ==
  (last_call = "tick_timers" /\ fault # "none") =>
    /\ prev.sound_timer_reg = 1 /\ sound_timer_reg = 1
    /\ delay_timer_reg =
         (IF prev.delay_timer_reg > 0 THEN prev.delay_timer_reg - 1 ELSE 0)
    /\ tones = prev.tones

\* C8 as stated: over tick, tick_timers and reset in any order the timers
\* behave as above, and every change of the sound timer from nonzero to zero
\* comes with exactly one tone.
C8_ToneAsStated ==
  /\ TimersStep
  /\ (prev.sound_timer_reg # 0 /\ sound_timer_reg = 0) =>
       Len(tones) = Len(prev.tones) + 1
  /\ Len(tones) # Len(prev.tones) =>
       (prev.sound_timer_reg # 0 /\ sound_timer_reg = 0)

\* C8 amended: the timers behave as above; the tone is requested exactly once
\* for each change of the sound timer from nonzero to zero that tick_timers
\* makes, and by nothing else: a reset(), or an Fx18 with Vx = 0, that zeroes
\* a nonzero sound timer requests no tone, and a tick_timers whose play_sound
\* panics for want of the sound file or of the audio device leaves the sound
\* timer at 1 with no tone played.
C8_TimersAndTone ==
  /\ TimersStep
  /\ TimersPanic
  /\ (last_call = "tick_timers" /\ prev.sound_timer_reg # 0 /\ sound_timer_reg = 0) =>
       Len(tones) = Len(prev.tones) + 1
  /\ Len(tones) # Len(prev.tones) =>
       (last_call = "tick_timers" /\ prev.sound_timer_reg # 0 /\ sound_timer_reg = 0)
  /\ last_call # "tick_timers" => tones = prev.tones

\* the tick_timers that took both timers from 1 to 0 and requested the first
\* tone, the call before it having found the sound timer above 1
C8_Witness ==
  /\ last_call = "tick_timers"
  /\ fault = "none"
  /\ prev.sound_timer_reg = 1
  /\ prev.delay_timer_reg = 1
  /\ sound_timer_reg = 0
  /\ delay_timer_reg = 0
  /\ prev.tones = << >>
  /\ tones = << 1 >>
  /\ v_reg[0] = 2

\* ------------------------------------------------------------ key wait
NoKey(kb) == \A k \in 0..(NUM_KEYS - 1) : ~kb[k]

\* the last call was a tick that fetched Fx0A and did not panic
Waited ==
  /\ last_call = "tick"
  /\ fault = "none"
  /\ digit1(last_op) = 15 /\ digit3(last_op) = 0 /\ digit4(last_op) = 10

\* C9: a tick that executes Fx0A at p while no key is pressed ends with
\* PC = p and every register, memory cell, stack entry, timer and pixel as
\* before, however often it is repeated; with a key pressed it ends with
\* PC = p + 2.
C9_KeyWait ==
  Waited =>
    IF NoKey(prev.keyboard)
    THEN /\ pc = prev.pc
         /\ v_reg = prev.v_reg
         /\ i_reg = prev.i_reg
         /\ \A a \in DOMAIN memory \cup DOMAIN prev.memory :
              Rd(memory, a) = Rd(prev.memory, a)
         /\ stack = prev.stack
         /\ stack_pointer = prev.stack_pointer
         /\ delay_timer_reg = prev.delay_timer_reg
         /\ sound_timer_reg = prev.sound_timer_reg
         /\ screen = prev.screen
         /\ keyboard = prev.keyboard
    ELSE pc = prev.pc + 2

\* an Fx0A that has waited and waits again: no key is pressed, PC is back on
\* the instruction, which the next tick fetches again with the same outcome
C9_Witness ==
  /\ Waited
  /\ NoKey(keyboard)
  /\ pc = prev.pc
  /\ NextOp(Self) = last_op
  /\ calls >= 3
  /\ tick(Self, 0).pc = pc

\* ------------------------------------------------------------ reset
\* C10: after reset() the machine is as Chip8::new() makes it: PC = 0x200,
\* I = 0, the registers, the stack, the stack pointer and the timers 0, the
\* keys released, the display all false, memory[0..80) the font table and
\* every other cell 0; a second reset() changes nothing.
C10_ResetIsNew ==
  last_call = "reset" =>
    /\ pc = 512
    /\ i_reg = 0
    /\ \A r \in 0..15 : v_reg[r] = 0
    /\ \A i \in 0..15 : stack[i] = 0
    /\ stack_pointer = 0
    /\ delay_timer_reg = 0
    /\ sound_timer_reg = 0
    /\ \A k \in 0..15 : ~keyboard[k]
    /\ screen = {}
    /\ DOMAIN memory \subseteq 0..79
    /\ \A a \in 0..79 : Rd(memory, a) = FONTSET[a + 1]
    /\ [Self EXCEPT !.tones = << >>] = new(overflow_checks)
    /\ reset(Self) = Self

\* a reset() of a machine that had run a loaded program: PC, a register, the
\* timers, the keyboard and memory all differed from their initial values
C10_Witness ==
  /\ last_call = "reset"
  /\ prev.pc # 512
  /\ prev.v_reg[0] # 0
  /\ prev.sound_timer_reg # 0
  /\ prev.delay_timer_reg # 0
  /\ ~NoKey(prev.keyboard)
  /\ DOMAIN prev.memory # DOMAIN MemoryWithFont
  /\ pc = 512

\* ------------------------------------------------------------ loading
\* The programs loaded: of each length within LoadSpread of 0 and of the
\* RAM_SIZE - START_ADDR bytes that fit, all zero (kind 0), no byte zero
\* (kind 1), or ADD V0, 1 repeated (kind 2).
LoadSpread == 1
LoadLens ==
  0..LoadSpread
  \cup ((RAM_SIZE - START_ADDR - LoadSpread)..(RAM_SIZE - START_ADDR + LoadSpread))
LoadKinds == 0..2
LoadByte(kind, i) ==
  IF kind = 0 THEN 0
  ELSE IF kind = 1 THEN 1 + (i % 255)
  ELSE IF i % 2 = 0 THEN 112 ELSE 1
LoadRoms ==
  { [i \in 1..n |-> LoadByte(kind, i - 1)] : n \in LoadLens, kind \in LoadKinds }

LoadSteps == 4

\* a load, a second one over it, and ticks of what was loaded
LoadLd == calls <= 1 /\ Load(LoadRoms)
TickLd == calls >= 1 /\ Tick(LoadSteps)
NextLd == LoadLd \/ TickLd
SpecLd == Init /\ [][NextLd]_vars

\* C11: load(bytes) with more than 3584 bytes panics and leaves every memory
\* cell as it was, none at or past 4096 being written; with at most 3584
\* bytes it does not panic, memory[0x200 + i] = bytes[i] for every i, and
\* every other cell is as it was.
C11_LoadBounds ==
  /\ DOMAIN memory \subseteq 0..4095
  /\ last_call = "load" =>
       IF Len(last_data) > 3584
       THEN /\ fault # "none"
            /\ \A a \in 0..4095 : Rd(memory, a) = Rd(prev.memory, a)
       ELSE /\ fault = "none"
            /\ \A i \in 0..(Len(last_data) - 1) :
                 Rd(memory, 512 + i) = last_data[i + 1]
            /\ \A a \in 0..4095 :
                 (a < 512 \/ a >= 512 + Len(last_data)) =>
                   Rd(memory, a) = Rd(prev.memory, a)

\* a load of 3585 zero bytes over a loaded program of 3584 bytes, none zero:
\* it panicked, and the program is still there from memory[0x200] to
\* memory[4095]
C11_Witness ==
  /\ last_call = "load"
  /\ Len(last_data) = 3585
  /\ last_data[1] = 0
  /\ fault # "none"
  /\ calls = 2
  /\ Rd(memory, 512) = 1
  /\ Rd(memory, 4095) = 14

\* ------------------------------------------------------------ opcodes
\* The programs of one instruction: every opcode whose second digit is one of
\* RegSamples,
OpSamples ==
  { 4096 * d1 + 256 * d2 + 16 * d3 + d4 :
      d1 \in 0..15, d2 \in RegSamples, d3 \in 0..15, d4 \in 0..15 }
\* and LD V0, 5; ADD V0, 3
OpRoms ==
  { << op \div 256, op % 256 >> : op \in OpSamples } \cup { << 96, 5, 112, 3 >> }

OpSteps == 3

LoadOp == calls = 0 /\ Load(OpRoms)
TickOp == calls >= 1 /\ Tick(OpSteps)
NextOps == LoadOp \/ TickOp
SpecOps == Init /\ [][NextOps]_vars

\* the opcode matches a pattern of the behaviour table
InTable(op) ==
  LET d1 == digit1(op)
      d2 == digit2(op)
      d3 == digit3(op)
      d4 == digit4(op)
  IN \/ d1 = 0 /\ d2 = 0 /\ << d3, d4 >> \in { << 0, 0 >>, << 14, 0 >>, << 14, 14 >> }
     \/ d1 \in {1, 2, 3, 4, 6, 7, 10, 11, 12, 13}
     \/ d1 = 5 /\ d4 = 0
     \/ d1 = 8 /\ d4 \in (0..7) \cup {14}
     \/ d1 = 9 /\ d4 = 0
     \/ d1 = 14 /\ << d3, d4 >> \in { << 9, 14 >>, << 10, 1 >> }
     \/ d1 = 15 /\ << d3, d4 >> \in { << 0, 7 >>, << 0, 10 >>, << 1, 5 >>, << 1, 8 >>,
                                      << 1, 14 >>, << 2, 9 >>, << 3, 3 >>, << 5, 5 >>,
                                      << 6, 5 >> }

\* the last call was a tick that fetched an opcode
Fetched == last_call = "tick" /\ last_op >= 0

\* C12: a tick that fetches an opcode matching no pattern of the behaviour
\* table panics as unimplemented, leaving the machine halted instead of going
\* on to the next instruction; a tick that fetches an opcode matching a
\* pattern never does.
C12_UnknownOpcodeFatal ==
  Fetched =>
    /\ ~InTable(last_op) => fault = "not implemented"
    /\ InTable(last_op) => fault # "not implemented"
    /\ fault # "none" => ~ENABLED Next

\* the tick that fetched 5011 (5xy1) and panicked
C12_Witness ==
  /\ Fetched
  /\ last_op = 20497
  /\ fault = "not implemented"
  /\ pc = 514

\* ------------------------------------------------------------ stack programs
\* LD V0, j; then at 0x202 a CALL of itself, which stacks a return address at
\* every tick
RecursionOps(j) ==
  [a \in {512, 514} |-> IF a = 512 THEN 24576 + j ELSE 8192 + 514]
\* LD V0, j; CALL 0x206; RET (with nothing stacked); at 0x206, RET
ReturnOps(j) ==
  [a \in {512, 514, 516, 518} |->
     IF a = 512 THEN 24576 + j
     ELSE IF a = 514 THEN 8192 + 518
     ELSE 238]
StackTags == 0..3
StackRoms ==
  { RomOf(RecursionOps(j)) : j \in StackTags }
  \cup { RomOf(ReturnOps(j)) : j \in StackTags }
  \cup { << 0, 238 >> }

StackSteps == 19

LoadStack == calls = 0 /\ Load(StackRoms)
TickStack == calls >= 1 /\ Tick(StackSteps)
NextStack == LoadStack \/ TickStack
SpecStack == Init /\ [][NextStack]_vars

\* C13: the stack pointer is always within 0..16; a 2nnn executed with 16
\* return addresses stacked, and a 00EE executed with none, each panic, and
\* leave the stack pointer where it was (16, and 0), the stack slots as they
\* were and PC just after the instruction.
C13_StackBounds ==
  /\ stack_pointer \in 0..16
  /\ DOMAIN stack = 0..15
  /\ (Fetched /\ digit1(last_op) = 2 /\ prev.stack_pointer = 16) =>
       /\ fault # "none"
       /\ stack_pointer = 16
       /\ stack = prev.stack
       /\ pc = prev.pc + 2
  /\ (Fetched /\ last_op = 238 /\ prev.stack_pointer = 0) =>
       /\ fault # "none"
       /\ stack_pointer = 0
       /\ stack = prev.stack
       /\ pc = prev.pc + 2

\* ------------------------------------------------------------ faulting programs
\* LD V0, a; LD V1, a; LD I, addr; op; and FFFF in the last two bytes of
\* memory.  The instructions tried: LD B, V0; LD [I], V1; LD V1, [I];
\* DRW V0, V0, 3; SKP V0; RET; 5001.
FaultOps == {61491, 61781, 61797, 53251, 57502, 238, 20481}
FaultAddrs == {768, 4093, 4094, 4095}
FaultBytes == {7, 123}
FaultProgram(a, addr, op) ==
  [p \in {512, 514, 516, 518, 4094} |->
     IF p = 512 THEN 24576 + a
     ELSE IF p = 514 THEN 24832 + a
     ELSE IF p = 516 THEN 40960 + addr
     ELSE IF p = 518 THEN op
     ELSE 65535]
FaultRoms ==
  { RomOf(FaultProgram(a, addr, op)) :
      a \in FaultBytes, addr \in FaultAddrs, op \in FaultOps }

FaultSteps == 5

LoadFault == calls = 0 /\ Load(FaultRoms)
TickFault == calls >= 1 /\ Tick(FaultSteps)
NextFault == LoadFault \/ TickFault
SpecFault == Init /\ [][NextFault]_vars

\* C14: after a tick that panicked, the registers, I, memory, the stack, the
\* stack pointer, the timers, the keyboard and the display are all as they
\* were before that tick.
C14_FaultsLocal ==
  (last_call = "tick" /\ fault # "none") =>
    /\ v_reg = prev.v_reg
    /\ i_reg = prev.i_reg
    /\ memory = prev.memory
    /\ stack = prev.stack
    /\ stack_pointer = prev.stack_pointer
    /\ delay_timer_reg = prev.delay_timer_reg
    /\ sound_timer_reg = prev.sound_timer_reg
    /\ keyboard = prev.keyboard
    /\ screen = prev.screen

\* ------------------------------------------------------------ fetch and execute
\* with the machine as in `m`, the instruction `op` is a taken skip
TakenSkip(m, op) ==
  LET vx == m.v_reg[digit2(op)]
      vy == m.v_reg[digit3(op)]
  IN \/ digit1(op) = 3 /\ vx = nn_of(op)
     \/ digit1(op) = 4 /\ vx # nn_of(op)
     \/ digit1(op) = 5 /\ digit4(op) = 0 /\ vx = vy
     \/ digit1(op) = 9 /\ digit4(op) = 0 /\ vx # vy
     \/ digit1(op) = 14 /\ nn_of(op) = 158 /\ vx < 16 /\ m.keyboard[vx]
     \/ digit1(op) = 14 /\ nn_of(op) = 161 /\ vx < 16 /\ ~m.keyboard[vx]

\* the instruction `op` is a jump, a call, a return, a taken skip or a key
\* wait with no key pressed
MovesPC(m, op) ==
  \/ digit1(op) \in {1, 2, 11}
  \/ op = 238
  \/ TakenSkip(m, op)
  \/ digit1(op) = 15 /\ nn_of(op) = 10 /\ NoKey(m.keyboard)

\* C15: load([0x60, 0x05, 0x70, 0x03]) and two ticks from the initial state
\* give V0 = 8 and PC = 0x204; every tick that fetches does to the machine
\* what executing the one instruction memory[PC] * 256 + memory[PC + 1] does
\* once PC is moved past it (a Cxkk with some byte of the generator: if any
\* byte gives this Vx, the byte equal to Vx does), and when that instruction
\* is not a jump, a call, a return, a taken skip or a blocked key wait it ends
\* with PC = old PC + 2.
C15_FetchExecute ==
  /\ ( /\ calls = 3 /\ last_call = "tick" /\ prev.pc = 514
       /\ Rd(memory, 512) = 96 /\ Rd(memory, 513) = 5
       /\ Rd(memory, 514) = 112 /\ Rd(memory, 515) = 3 ) =>
       v_reg[0] = 8 /\ pc = 516
  /\ Fetched =>
       LET op == Rd(prev.memory, prev.pc) * 256 + Rd(prev.memory, prev.pc + 1)
           fetched == [prev EXCEPT !.pc = prev.pc + 2]
       IN /\ \E number \in (IF digit1(op) = 12 THEN {v_reg[digit2(op)]} ELSE {0}) :
               Self = execute(fetched, op, number)
          /\ ~MovesPC(prev, op) => pc = prev.pc + 2

\* the second tick of LD V0, 5; ADD V0, 3
C15_Witness ==
  /\ calls = 3 /\ last_call = "tick" /\ last_op = 28675
  /\ prev.v_reg[0] = 5 /\ prev.pc = 514
  /\ v_reg[0] = 8 /\ pc = 516
  /\ fault = "none"

\* ------------------------------------------------------------ decimal digits
\* LD Vx, v; LD I, addr; LD B, Vx: for every byte v, with I in the free
\* memory, on the program itself and on the last three cells of memory
BcdAddrs == {512, 768, 4093}
BcdRoms ==
  { << 96 + x, v, 160 + (addr \div 256), addr % 256, 240 + x, 51 >> :
      x \in RegSamples, v \in 0..(U8 - 1), addr \in BcdAddrs }

BcdSteps == 5

LoadBcd == calls = 0 /\ Load(BcdRoms)
TickBcd == calls >= 1 /\ Tick(BcdSteps)
NextBcd == LoadBcd \/ TickBcd
SpecBcd == Init /\ [][NextBcd]_vars

\* C16: a tick that executes Fx33 with v = Vx and the three cells I, I+1, I+2
\* inside memory leaves memory[I] = v div 100, memory[I+1] = (v div 10) mod 10
\* and memory[I+2] = v mod 10, and I, every register and every other memory
\* cell as they were.
C16_Bcd ==
  ( /\ Fetched
    /\ digit1(last_op) = 15 /\ nn_of(last_op) = 51
    /\ prev.i_reg + 2 < 4096 ) =>
    LET v == prev.v_reg[digit2(last_op)]
        I == prev.i_reg
    IN /\ fault = "none"
       /\ Rd(memory, I) = v \div 100
       /\ Rd(memory, I + 1) = (v \div 10) % 10
       /\ Rd(memory, I + 2) = v % 10
       /\ i_reg = I
       /\ v_reg = prev.v_reg
       /\ \A a \in (0..4095) \ {I, I + 1, I + 2} :
            Rd(memory, a) = Rd(prev.memory, a)

\* the Fx33 of VF = 202 with I on the program: 2, 0, 2 have replaced the
\* program's first three bytes
C16_Witness ==
  /\ Fetched
  /\ last_op = 65331
  /\ prev.v_reg[15] = 202
  /\ prev.i_reg = 512
  /\ Rd(prev.memory, 512) = 111 /\ Rd(prev.memory, 513) = 202
  /\ Rd(memory, 512) = 2 /\ Rd(memory, 513) = 0 /\ Rd(memory, 514) = 2
  /\ fault = "none"

\* ------------------------------------------------------------ jumping programs
\* 0x200 LD V0, a; 0x202 JP t, CALL t or JP V0, t; 0x204 LD V1, K; and where
\* the jump lands, T = t (or t + a for JP V0): SE V0, a; then at T + 4, RET
JumpKinds == {1, 2, 11}
JumpTargets == {520, 521, 522}
JumpBytes == {0, 1, 2}
JumpOps(a, k, t) ==
  LET T == IF k = 11 THEN t + a ELSE t
  IN [p \in {512, 514, 516, T, T + 4} |->
        IF p = 512 THEN 24576 + a
        ELSE IF p = 514 THEN 4096 * k + t
        ELSE IF p = 516 THEN 61706
        ELSE IF p = T THEN 12288 + a
        ELSE 238]
JumpRoms ==
  { RomOf(JumpOps(a, k, t)) : a \in JumpBytes, k \in JumpKinds, t \in JumpTargets }

JumpSteps == 7

LoadJump == calls = 0 /\ Load(JumpRoms)
TickJump == calls >= 1 /\ Tick(JumpSteps)
NextJump == LoadJump \/ TickJump
SpecJump == Init /\ [][NextJump]_vars

\* C17 as stated: PC is even in every reachable state.
C17_PCEvenAsStated == pc % 2 = 0

\* with the machine as in `m`, the instruction `op` assigns PC an odd address
OddTarget(m, op) ==
  \/ digit1(op) \in {1, 2} /\ nnn_of(op) % 2 = 1
  \/ digit1(op) = 11 /\ (m.v_reg[0] + nnn_of(op)) % 2 = 1

\* PC and every stacked return address of `m` are even
EvenAddresses(m) ==
  /\ m.pc % 2 = 0
  /\ \A i \in 0..15 : i < m.stack_pointer => m.stack[i] % 2 = 0

\* C17 amended: PC starts at 0x200; a tick that finds PC and every stacked
\* return address even leaves them even (00EE, the skips and the Fx0A rewind
\* included) unless it executes a 1nnn or 2nnn with nnn odd or a Bnnn with
\* V0 + nnn odd, which, when they do not panic, leave PC odd: no odd target
\* is masked or refused.
C17_PCEven ==
  /\ calls = 0 => pc = 512
  /\ last_call = "load" => pc = prev.pc
  /\ (last_call = "tick" /\ EvenAddresses(prev)) =>
       IF Fetched /\ OddTarget(prev, last_op)
       THEN fault = "none" => pc % 2 = 1
       ELSE pc % 2 = 0 /\ (fault = "none" => EvenAddresses(Self))

\* a JP V0, 0x209 with V0 = 1, which took PC to the even 0x20A
C17_Witness ==
  /\ Fetched /\ fault = "none"
  /\ last_op = 45577
  /\ prev.v_reg[0] = 1
  /\ pc = 522

\* ------------------------------------------------------------ font programs
\* LD V0, v; LD V1, v; LD I, addr; then LD B, V0, LD [I], V1 or LD F, V0
FontOps == {61491, 61781, 61481}
FontAddrs == {0, 78, 79, 80, 768}
FontBytes == {7, 15}
FontRoms ==
  { << 96, v, 97, v, 160 + (addr \div 256), addr % 256, op \div 256, op % 256 >> :
      v \in FontBytes, addr \in FontAddrs, op \in FontOps }
  \cup { << 240, 51 >> }

FontCalls == 5

LoadFont == calls <= 1 /\ Load(FontRoms)
TickFont == Tick(FontCalls)
KeypressFont == Keypress(FontCalls)
TickTimersFont == TickTimers(FontCalls)
ResetFont == Reset(FontCalls)
NextFont == LoadFont \/ TickFont \/ KeypressFont \/ TickTimersFont \/ ResetFont
SpecFont == Init /\ [][NextFont]_vars

\* memory[0..80) of `m` is the font table
FontIntact(m) == \A a \in 0..79 : Rd(m.memory, a) = FONTSET[a + 1]

\* C18 as stated: memory[0..80) is the font table in every state reached by
\* load, keypress, tick and tick_timers from new() or reset().
C18_FontImmutable == FontIntact(Self)

\* C18 amended: new() and reset() leave the font table in memory[0..80), and
\* load, keypress and tick_timers leave those cells as they are; a tick
\* changes a cell below 80 only by Fx33, among I..I+2, or by Fx55, among
\* I..I+x, and these do write there when I points there; while the table is
\* intact an Fx29 with Vx in 0..15 leaves I = 5 Vx, on the five bytes of
\* glyph Vx.
C18_FontKept ==
  /\ last_call \in {"new", "reset"} => FontIntact(Self)
  /\ last_call \in {"load", "keypress", "tick_timers"} =>
       \A a \in 0..79 : Rd(memory, a) = Rd(prev.memory, a)
  /\ last_call = "tick" =>
       \A a \in 0..79 :
         Rd(memory, a) # Rd(prev.memory, a) =>
           /\ digit1(last_op) = 15
           /\ \/ nn_of(last_op) = 51 /\ a \in prev.i_reg..(prev.i_reg + 2)
              \/ nn_of(last_op) = 85 /\ a \in prev.i_reg..(prev.i_reg + digit2(last_op))
  /\ (Fetched /\ digit1(last_op) = 15 /\ nn_of(last_op) = 51 /\ fault = "none") =>
       Rd(memory, prev.i_reg + 1) = (prev.v_reg[digit2(last_op)] \div 10) % 10
  /\ (Fetched /\ digit1(last_op) = 15 /\ nn_of(last_op) = 85 /\ fault = "none") =>
       Rd(memory, prev.i_reg) = prev.v_reg[0]
  /\ ( /\ Fetched /\ digit1(last_op) = 15 /\ nn_of(last_op) = 41
       /\ prev.v_reg[digit2(last_op)] < 16 /\ FontIntact(prev) ) =>
       /\ i_reg = 5 * prev.v_reg[digit2(last_op)]
       /\ \A r \in 0..4 : Rd(memory, i_reg + r) = FONTSET[i_reg + r + 1]

\* the Fx33 of V0 = 7 with I = 78: the last two bytes of glyph F, 0x80 and
\* 0x80, have become 0 and 0, and memory[80] is 7
C18_Witness ==
  /\ Fetched /\ fault = "none"
  /\ last_op = 61491
  /\ prev.i_reg = 78
  /\ FontIntact(prev)
  /\ Rd(memory, 78) = 0 /\ Rd(memory, 79) = 0 /\ Rd(memory, 80) = 7
  /\ FONTSET[79] = 128 /\ FONTSET[80] = 128

\* ------------------------------------------------------------ key programs
\* LD Vx, v; then SKP Vx or SKNP Vx
KeyBytes == {0, 15, 16, 255}
KeyRoms ==
  { << 96 + x, v, 224 + x, nn >> :
      x \in RegSamples, v \in KeyBytes, nn \in {158, 161} }

KeyCalls == 4

LoadKey == calls <= 1 /\ Load(KeyRoms)
TickKey == calls >= 1 /\ Tick(KeyCalls)
KeypressKey == Keypress(KeyCalls)
NextKey == LoadKey \/ TickKey \/ KeypressKey
SpecKey == Init /\ [][NextKey]_vars

\* C19: no tick panics on an index of the register file or of the keyboard;
\* a tick that executes Ex9E or ExA1 does not panic whatever Vx is, and skips
\* (PC = old PC + 4) or does not (PC = old PC + 2) according to keyboard[Vx].
C19_IndicesInRange ==
  (Fetched /\ digit1(last_op) = 14 /\ nn_of(last_op) \in {158, 161}) =>
    LET vx == prev.v_reg[digit2(last_op)]
    IN /\ fault = "none"
       /\ vx < 16 =>
            pc = prev.pc + (IF prev.keyboard[vx] = (nn_of(last_op) = 158) THEN 4 ELSE 2)

\* ------------------------------------------------------------ key wait, a key pressed
\* C20: a tick that executes Fx0A at p while at least one key is pressed
\* leaves Vx = 1, the pressed state of the first pressed key and not its
\* index, and PC = p + 2; no other register, no memory cell and no key flag
\* changes.
C20_KeyWaitPressed ==
  (Waited /\ ~NoKey(prev.keyboard)) =>
    /\ v_reg[digit2(last_op)] = 1
    /\ RegsKeptExcept({digit2(last_op)})
    /\ pc = prev.pc + 2
    /\ i_reg = prev.i_reg
    /\ \A a \in DOMAIN memory \cup DOMAIN prev.memory :
         Rd(memory, a) = Rd(prev.memory, a)
    /\ keyboard = prev.keyboard

\* an Fx0A executed while key F alone was pressed: V3 went from 0 to 1
C20_Witness ==
  /\ Waited
  /\ last_op = 62218
  /\ prev.keyboard[15]
  /\ \A k \in 0..14 : ~prev.keyboard[k]
  /\ prev.v_reg[3] = 0
  /\ v_reg[3] = 1
  /\ pc = 514

\* ------------------------------------------------------------ display programs
\* DRW V0, V0, 5 (glyph 0, at I = 0), then one instruction: with x = 1, the
\* last two digits of every pattern of the match and of some of none, under
\* each first digit whose patterns have them, and two under every other;
\* and JP 0xFFF, from where nothing can be fetched
ScreenTails ==
  { 0, 7, 10, 21, 24, 30, 41, 51, 85, 101, 158, 161, 224, 238,
    32, 33, 34, 35, 36, 37, 38, 39, 46, 40 }
ScreenOps ==
  { 4096 * d1 + 256 + t : d1 \in {0, 5, 8, 9, 14, 15}, t \in ScreenTails }
  \cup { 4096 * d1 + 256 + t : d1 \in {1, 2, 3, 4, 6, 7, 10, 11, 12, 13}, t \in {5, 224} }
  \cup {0, 224, 238, 8191}
ScreenRoms == { << 208, 5, op \div 256, op % 256 >> : op \in ScreenOps }
\* the programs loaded over a running one: CLS; and JP 0x200
ReloadRoms == { << 0, 224 >>, << 18, 0 >> }

ScreenCalls == 4

LoadScreen == calls = 0 /\ Load(ScreenRoms)
ReloadScreen == calls >= 1 /\ calls < ScreenCalls /\ Load(ReloadRoms)
TickScreen == calls >= 1 /\ Tick(ScreenCalls)
KeypressScreen == calls >= 1 /\ Keypress(ScreenCalls)
TickTimersScreen == calls >= 1 /\ TickTimers(ScreenCalls)
NextScreen ==
  LoadScreen \/ ReloadScreen \/ TickScreen \/ KeypressScreen \/ TickTimersScreen
SpecScreen == Init /\ [][NextScreen]_vars

\* C21: tick_timers, load, keypress and a tick of any instruction other than
\* 00E0 and Dxyn (or of none, the fetch having panicked) leave the display as
\* it was; 00E0 leaves every pixel false; Dxyn changes no pixel outside those
\* under the set bits of its sprite.
C21_DisplayOwners ==
  /\ last_call \in {"tick_timers", "load", "keypress"} => screen = prev.screen
  /\ (last_call = "tick" /\ ~Fetched) => screen = prev.screen
  /\ (Fetched /\ last_op # 224 /\ digit1(last_op) # 13) => screen = prev.screen
  /\ (Fetched /\ last_op = 224) => screen = {}
  /\ (Fetched /\ digit1(last_op) = 13) =>
       (screen \ prev.screen) \cup (prev.screen \ screen) \subseteq SpritePixels

\* an LD B, V1 executed over the drawn glyph, which is still on the display
C21_Witness ==
  /\ Fetched /\ fault = "none"
  /\ last_op = 61747
  /\ prev.screen # {}
  /\ screen = prev.screen
  /\ memory # prev.memory \/ Rd(memory, i_reg) = 0


\* ---------------------------------------------------------------------------
\* The host: DesktopGameManager::start_game_loop
\* ---------------------------------------------------------------------------

machine_vars == << screen, memory, v_reg, pc, i_reg, delay_timer_reg,
                   sound_timer_reg, stack, stack_pointer, keyboard,
                   fault, tones, overflow_checks,
                   calls, last_call, last_op, last_data, prev >>

\* key2btn: the sixteen keys of the keypad, -1 for None
key2btn(key) ==
  CASE key = "Num1" -> 1  [] key = "Num2" -> 2  [] key = "Num3" -> 3
    [] key = "Num4" -> 12 [] key = "Q" -> 4     [] key = "W" -> 5
    [] key = "E" -> 6     [] key = "R" -> 13    [] key = "A" -> 7
    [] key = "S" -> 8     [] key = "D" -> 9     [] key = "F" -> 14
    [] key = "Z" -> 10    [] key = "X" -> 0     [] key = "C" -> 11
    [] key = "V" -> 15    [] OTHER -> -1

\* for _ in 0..TICKS_PER_FRAME, with one tick more
ticks_left_inclusive(made) == made <= TICKS_PER_FRAME

\* for _ in 0..TICKS_PER_FRAME: whether the loop has an iteration left
ticks_left(made) == made < TICKS_PER_FRAME

\* The files of the programs the host is run on:
\*   keys.ch8    LD V3, K; JP 0x200
\*   timers.ch8  LD V0, 2; LD DT, V0; LD ST, V0; JP 0x206
\*   draw.ch8    DRW V0, V0, 5 (the glyph at I = 0); CLS; JP 0x200
\*   bad.ch8     0x5001, which no arm of execute matches
Files ==
  [ path \in {"keys.ch8", "timers.ch8", "draw.ch8", "bad.ch8"} |->
      CASE path = "keys.ch8" -> << 243, 10, 18, 0 >>
        [] path = "timers.ch8" -> << 96, 2, 240, 21, 240, 24, 18, 6 >>
        [] path = "draw.ch8" -> << 208, 5, 0, 224, 18, 0 >>
        [] path = "bad.ch8" -> << 80, 1 >> ]

\* the command lines: the program's name, then the path of a file or of none
LoopArgs == { << "chip8", path >> : path \in DOMAIN Files \cup {"none.ch8"} }

\* what DesktopGameManager::new finds of SDL: all of it, or no SDL, no video
\* subsystem, no window, or no canvas
Sdl == {"ok", "no sdl", "no video", "no window", "no canvas"}

\* main: DesktopGameManager::new(), whose create_sql and create_canvas panic
\* on what they do not get, then Chip8::new() and start_game_loop
NewManager ==
  /\ host_pc = "main"
  /\ \E sdl \in Sdl :
       IF sdl = "ok"
       THEN host_pc' = "choose_game" /\ printed' = printed
       ELSE /\ host_pc' = "panic"
            /\ printed' = Append(printed,
                  << "panicked",
                     CASE sdl = "no window" -> "Could not create video window"
                       [] sdl = "no canvas" -> "Could not create canvas"
                       [] OTHER -> "called Result::unwrap() on an Err value",
                     sdl >>)
  /\ UNCHANGED << args, games, game_path, polled, frame_tick, frames,
                  ticks_made, timer_ticks_made, canvas >>
  /\ UNCHANGED machine_vars

\* choose_game, up to its reading of the directory: with one argument after
\* the program's name that argument, args[1], is the path
ChooseGame(lines) ==
  /\ host_pc = "choose_game"
  /\ \E a \in lines :
       /\ args' = a
       /\ IF Len(a) = 2
          THEN game_path' = a[2] /\ host_pc' = "read_game_rom"
          ELSE game_path' = game_path /\ host_pc' = "read_dir"
  /\ UNCHANGED << games, printed, polled, frame_tick, frames, ticks_made,
                  timer_ticks_made, canvas >>
  /\ UNCHANGED machine_vars

\* what the host finds besides the file: all as it should be, a file that
\* cannot be read to its end, or no event pump
HostEnds == {"ok", "read err", "no event pump"}

\* read_game_rom(&game_path), which panics on a file it cannot open or read,
\* chip8.load(&game_data), and self.sdl_context.event_pump().unwrap()
LoadGame ==
  /\ host_pc = "read_game_rom"
  /\ fault = "none"
  /\ \E end \in HostEnds :
       LET loading == Append(printed, << "Loading", game_path >>)
       IN IF game_path \notin DOMAIN Files
          THEN /\ end = "ok"
               /\ host_pc' = "panic"
               /\ printed' = Append(loading, << "panicked", "Failed to open ROM file" >>)
               /\ UNCHANGED machine_vars
          ELSE IF end = "read err"
          THEN /\ host_pc' = "panic"
               /\ printed' = Append(loading, << "panicked", "Failed to read ROM file" >>)
               /\ UNCHANGED machine_vars
          ELSE /\ Machine(load(Self, Files[game_path]), "load", -1, Files[game_path])
               /\ IF load(Self, Files[game_path]).fault # "none"
                  THEN host_pc' = "panic" /\ printed' = loading
                  ELSE IF end = "no event pump"
                  THEN /\ host_pc' = "panic"
                       /\ printed' = Append(loading,
                             << "panicked", "called Result::unwrap() on an Err value" >>)
                  ELSE host_pc' = "poll_iter" /\ printed' = loading
  /\ UNCHANGED << args, games, game_path, polled, frame_tick, frames,
                  ticks_made, timer_ticks_made, canvas >>

\* The events poll_iter yields: Quit, KeyDown and KeyUp of a key, and one of
\* the kinds the match leaves to its last arm
Keycodes == {"Escape", "X", "V", "P"}
Events ==
  { << "Quit", "" >>, << "MouseMotion", "" >> }
    \cup { << kind, key >> : kind \in {"KeyDown", "KeyUp"}, key \in Keycodes }

\* one turn of for evt in event_pump.poll_iter()
PollEvent(limit) ==
  /\ host_pc = "poll_iter"
  /\ frames < limit
  /\ polled < limit
  /\ \E evt \in Events :
       IF evt[1] = "Quit" \/ evt = << "KeyDown", "Escape" >>
       THEN /\ host_pc' = "break"
            /\ polled' = polled + 1
            /\ UNCHANGED machine_vars
       ELSE /\ host_pc' = host_pc
            /\ polled' = polled + 1
            /\ IF evt[1] \in {"KeyDown", "KeyUp"} /\ key2btn(evt[2]) # -1
               THEN Machine(keypress(Self, key2btn(evt[2]), evt[1] = "KeyDown"),
                            "keypress", -1, << >>)
               ELSE UNCHANGED machine_vars
  /\ UNCHANGED << args, games, game_path, printed, frame_tick, frames,
                  ticks_made, timer_ticks_made, canvas >>

\* poll_iter has no event left
PollEnd(limit) ==
  /\ host_pc = "poll_iter"
  /\ frames < limit
  /\ host_pc' = "tick"
  /\ UNCHANGED << args, games, game_path, printed, polled, frame_tick, frames,
                  ticks_made, timer_ticks_made, canvas >>
  /\ UNCHANGED machine_vars

\* one turn of for _ in 0..TICKS_PER_FRAME { chip8.tick(); }
FrameTick ==
  /\ host_pc = "tick"
  /\ ticks_left(frame_tick)
  /\ \E number \in (IF digit1(NextOp(Self)) = 12 THEN 0..(U8 - 1) ELSE {0}) :
       /\ Machine(tick(Self, number), "tick", NextOp(Self), << >>)
       /\ host_pc' = IF tick(Self, number).fault = "none" THEN "tick" ELSE "panic"
  /\ frame_tick' = frame_tick + 1
  /\ ticks_made' = ticks_made + 1
  /\ UNCHANGED << args, games, game_path, printed, polled, frames,
                  timer_ticks_made, canvas >>

\* chip8.tick_timers(), once the for loop is through
FrameTimers ==
  /\ host_pc = "tick"
  /\ ~ticks_left(frame_tick)
  /\ \E audio \in (IF sound_timer_reg = 1 THEN Audio ELSE {"ok"}) :
       /\ Machine(tick_timers(Self, audio), "tick_timers", -1, << >>)
       /\ host_pc' = IF tick_timers(Self, audio).fault = "none"
                     THEN "draw_screen" ELSE "panic"
  /\ timer_ticks_made' = timer_ticks_made + 1
  /\ UNCHANGED << args, games, game_path, printed, polled, frame_tick, frames,
                  ticks_made, canvas >>

\* self.draw_screen(&chip8), which reads chip8.get_screen() and panics when
\* the canvas refuses the rectangle of a lit pixel, and the end of the
\* iteration of 'gameloop
DrawScreen ==
  /\ host_pc = "draw_screen"
  /\ canvas' = screen
  /\ \/ /\ frames' = frames + 1
        /\ polled' = 0
        /\ frame_tick' = 0
        /\ host_pc' = "poll_iter"
        /\ printed' = printed
     \/ /\ screen # BlankScreen
        /\ host_pc' = "panic"
        /\ printed' = Append(printed,
              << "panicked", "called Result::unwrap() on an Err value" >>)
        /\ UNCHANGED << frames, polled, frame_tick >>
  /\ UNCHANGED << args, games, game_path, ticks_made, timer_ticks_made >>
  /\ UNCHANGED machine_vars

\* the iterations of 'gameloop followed, and the events of one iteration
MaxFrames == 2

ChooseLoop == ChooseGame(LoopArgs)
PollEventLoop == PollEvent(MaxFrames)
PollEndLoop == PollEnd(MaxFrames)

NextLoop ==
  NewManager \/ ChooseLoop \/ LoadGame \/ PollEventLoop \/ PollEndLoop \/ FrameTick
    \/ FrameTimers \/ DrawScreen

SpecLoop == Init /\ [][NextLoop]_vars

\* C22: in every iteration of 'gameloop that does not quit, the key events are
\* applied first, then tick is called TICKS_PER_FRAME = 7 times, then
\* tick_timers once, then the display is read: a key changes only while the
\* events are polled, before the first tick of the iteration; the ticks of an
\* iteration follow one another with no other call between them; the display
\* is read right after tick_timers; and when f iterations have come to their
\* end there have been 7f calls of tick and f of tick_timers.
C22_FrameOrder ==
  /\ host_pc \in {"poll_iter", "break"} =>
       /\ ticks_made = TICKS_PER_FRAME * frames
       /\ timer_ticks_made = frames
       /\ frame_tick = 0
       /\ frames >= 1 => canvas = screen
  /\ host_pc = "tick" =>
       /\ frame_tick <= TICKS_PER_FRAME
       /\ ticks_made = TICKS_PER_FRAME * frames + frame_tick
       /\ timer_ticks_made = frames
       /\ frame_tick >= 1 => last_call = "tick" /\ keyboard = prev.keyboard
  /\ host_pc = "draw_screen" =>
       /\ last_call = "tick_timers"
       /\ ticks_made = TICKS_PER_FRAME * (frames + 1)
       /\ timer_ticks_made = frames + 1
  /\ last_call = "keypress" =>
       host_pc \in {"poll_iter", "break"} \/ (host_pc = "tick" /\ frame_tick = 0)

\* two iterations have come to their end, a key having gone down before the
\* ticks of the second; the display read is the one the ticks left
C22_Witness ==
  /\ host_pc = "poll_iter" /\ frames = 2 /\ game_path = "draw.ch8"
  /\ ticks_made = 14 /\ timer_ticks_made = 2
  /\ keyboard[0] /\ canvas = {} /\ screen = {}



\* ---------------------------------------------------------------------------
\* Fx55 and Fx65
\* ---------------------------------------------------------------------------

\* The programs: three registers and I set, then
\*   LD [I], Vx; LD Vx, [I]
\*   LD [I], Vx; LD V0, 9; LD Vx, [I]
\*   LD Vx, [I]
\* with I on the font, on the program, on free memory, and within sixteen
\* bytes of the end of memory
RegAddrs == {0, 514, 768, 4080, 4081, 4094, 4095}
RegBytes == {0, 7, 255}
RegKinds == 0..2
RegRoms ==
  { << 96, b, 97, 255 - b, 111, 7, 160 + (addr \div 256), addr % 256 >>
      \o (CASE kind = 0 -> << 240 + x, 85, 240 + x, 101 >>
            [] kind = 1 -> << 240 + x, 85, 96, 9, 240 + x, 101 >>
            [] kind = 2 -> << 240 + x, 101 >>) :
      b \in RegBytes, addr \in RegAddrs, x \in RegSamples, kind \in RegKinds }
RegSteps == 8

LoadRegs == calls = 0 /\ Load(RegRoms)
TickRegs == calls >= 1 /\ Tick(RegSteps)
NextRegs == LoadRegs \/ TickRegs
SpecRegs == Init /\ [][NextRegs]_vars

\* the cells I..I+x of the machine m, those of them that there are
RegCells(m, x) == { a \in m.i_reg..(m.i_reg + x) : a < RAM_SIZE }

\* C23: Fx55 and Fx65 leave I as it was.  Fx55 changes no cell other than
\* I..I+x and no register, and when it returns cell I+i holds Vi for every i
\* of 0..x.  Fx65 changes no cell and no register above x, and when it returns
\* Vi holds cell I+i for every i of 0..x.  Hence when Fx55 has returned and
\* Fx65 with the same x is the next instruction, the registers after that
\* Fx65 are the registers before the Fx55.
C23_StoreLoadRegs ==
  /\ (Fetched /\ digit1(last_op) = 15 /\ last_op % 256 = 85) =>
       LET x == digit2(last_op)
       IN /\ i_reg = prev.i_reg
          /\ v_reg = prev.v_reg
          /\ \A a \in (DOMAIN memory \cup DOMAIN prev.memory) \ RegCells(prev, x) :
               Rd(memory, a) = Rd(prev.memory, a)
          /\ fault = "none" =>
               /\ \A i \in 0..x : Rd(memory, i_reg + i) = prev.v_reg[i]
               /\ (NextOp(Self) = last_op + 16) =>
                    /\ tick(Self, 0).fault = "none"
                    /\ tick(Self, 0).v_reg = prev.v_reg
                    /\ tick(Self, 0).i_reg = prev.i_reg
  /\ (Fetched /\ digit1(last_op) = 15 /\ last_op % 256 = 101) =>
       LET x == digit2(last_op)
       IN /\ i_reg = prev.i_reg
          /\ memory = prev.memory
          /\ \A r \in (x + 1)..(NUM_REGS - 1) : v_reg[r] = prev.v_reg[r]
          /\ fault = "none" =>
               \A i \in 0..x : v_reg[i] = Rd(prev.memory, prev.i_reg + i)

\* LD [I], VF at 4080 has stored sixteen registers up to the last cell of
\* memory, three of them not zero, and LD VF, [I] is next
C23_Witness ==
  /\ Fetched /\ last_op = 65365 /\ fault = "none" /\ i_reg = 4080
  /\ Rd(memory, 4080) = 7 /\ Rd(memory, 4081) = 248 /\ Rd(memory, 4095) = 7
  /\ NextOp(Self) = 65381



\* ---------------------------------------------------------------------------
\* DesktopGameManager::choose_game
\* ---------------------------------------------------------------------------

\* the entries read_dir("./c8games") yields, the first n of them; entry is
\* "ok", or "err" for an entry that is an Err, or "not utf8" for one whose
\* path to_str gives None for
Dir ==
  << [file_name |-> "15PUZZLE", path |-> "./c8games/15PUZZLE", entry |-> "ok"],
     [file_name |-> "BLINKY", path |-> "./c8games/BLINKY", entry |-> "ok"],
     [file_name |-> "BRIX", path |-> "./c8games/BRIX", entry |-> "ok"],
     [file_name |-> "PONG", path |-> "./c8games/PONG", entry |-> "ok"] >>

\* what a directory can end with: nothing more, or an entry that cannot be
\* read or named
DirEnds == {"ok", "err", "not utf8"}

\* the first n entries and the end
dir_entries(n, end) ==
  SubSeq(Dir, 1, n)
    \o (IF end = "ok" THEN << >>
        ELSE << [file_name |-> "?", path |-> "?", entry |-> end] >>)

\* for path in paths: the entry printed under the u8 counter i and its path
\* pushed, from entry k on; i = i + 1 is checked or wraps as the build has it
RECURSIVE list_games(_, _, _, _)
list_games(entries, k, l, checks) ==
  IF k > Len(entries) THEN l
  ELSE IF entries[k].entry = "err"
  THEN [l EXCEPT !.panic = "called Result::unwrap() on an Err value"]
  ELSE LET shown == [l EXCEPT
                       !.printed = Append(@, << "{}- {:?}", l.i, entries[k].file_name >>)]
           listed == [shown EXCEPT !.games = Append(@, entries[k].path)]
       IN IF entries[k].entry = "not utf8"
          THEN [shown EXCEPT !.panic = "called Option::unwrap() on a None value"]
          ELSE IF l.i + 1 >= U8 /\ checks
          THEN [listed EXCEPT !.panic = "attempt to add with overflow"]
          ELSE list_games(entries, k + 1, [listed EXCEPT !.i = (@ + 1) % U8], checks)

\* str::trim: the line without the white space at its two ends
\* A text is the sequence of its characters, a character of ASCII being the
\* string of it and any other the string of its code point.  White_Space is
\* the characters char::is_whitespace holds of.
White_Space ==
  { " ", "\t", "\n", "\r", "\f", "U+000B", "U+0085", "U+00A0", "U+1680",
    "U+2000", "U+2001", "U+2002", "U+2003", "U+2004", "U+2005", "U+2006",
    "U+2007", "U+2008", "U+2009", "U+200A", "U+2028", "U+2029", "U+202F",
    "U+205F", "U+3000" }

RECURSIVE trim(_)
trim(line) ==
  IF line = << >> THEN line
  ELSE IF Head(line) \in White_Space THEN trim(Tail(line))
  ELSE IF line[Len(line)] \in White_Space THEN trim(SubSeq(line, 1, Len(line) - 1))
  ELSE line

DecimalDigits == {"0", "1", "2", "3", "4", "5", "6", "7", "8", "9"}

digit_value(c) ==
  CASE c = "0" -> 0 [] c = "1" -> 1 [] c = "2" -> 2 [] c = "3" -> 3 [] c = "4" -> 4
    [] c = "5" -> 5 [] c = "6" -> 6 [] c = "7" -> 7 [] c = "8" -> 8 [] c = "9" -> 9

RECURSIVE digits_value(_, _)
digits_value(text, acc) ==
  IF text = << >> THEN acc
  ELSE digits_value(Tail(text), 10 * acc + digit_value(Head(text)))

\* the digits of a number without the zeros before them
RECURSIVE strip_zeros(_)
strip_zeros(text) ==
  IF Len(text) > 1 /\ Head(text) = "0" THEN strip_zeros(Tail(text)) ELSE text

\* usize::MAX of a 64-bit target, 2^64 - 1, as its digits
USIZE_MAX ==
  << "1", "8", "4", "4", "6", "7", "4", "4", "0", "7",
     "3", "7", "0", "9", "5", "5", "1", "6", "1", "5" >>

\* a > b, for the digits a and b of two numbers, neither with a zero before it
RECURSIVE digits_gt(_, _)
digits_gt(a, b) ==
  IF Len(a) # Len(b) THEN Len(a) > Len(b)
  ELSE IF a = << >> THEN FALSE
  ELSE IF Head(a) # Head(b) THEN digit_value(Head(a)) > digit_value(Head(b))
  ELSE digits_gt(Tail(a), Tail(b))

\* the loop of usize::from_str over the characters left, result being the
\* digits of the number read so far: a character that is no digit ends it
\* with InvalidDigit, and a digit that takes result * 10 + digit above
\* usize::MAX ends it with PosOverflow, whichever comes first in the text
RECURSIVE parse_digits(_, _)
parse_digits(text, result) ==
  IF text = << >> THEN [kind |-> "Ok", digits |-> result]
  ELSE IF Head(text) \notin DecimalDigits
  THEN [kind |-> "InvalidDigit", digits |-> << >>]
  ELSE LET next == strip_zeros(Append(result, Head(text)))
       IN IF digits_gt(next, USIZE_MAX)
          THEN [kind |-> "PosOverflow", digits |-> << >>]
          ELSE parse_digits(Tail(text), next)

\* str::parse::<usize>: Ok with the digits of the number written, a + before
\* it or none, or the Err of an empty text, of a sign alone, or of the loop
\* over the characters.  The number is held by its digits, a usize having
\* values the checker's integers have not.
parse(text) ==
  LET number == IF text # << >> /\ Head(text) = "+" THEN Tail(text) ELSE text
  IN IF text = << >> THEN [kind |-> "Empty", digits |-> << >>]
     ELSE IF number = << >> THEN [kind |-> "InvalidDigit", digits |-> << >>]
     ELSE parse_digits(number, << >>)

\* choice > games.len(), for the digits of choice: a number of more than 9
\* digits is 10^9 at least, and no Vec of the model has as many entries
choice_gt_len(choice, list) ==
  Len(choice) > 9 \/ digits_value(choice, 0) > Len(list)

\* games[choice]: whether the Vec has an entry at the index
choose_index(list, choice) ==
  Len(choice) <= 9 /\ digits_value(choice, 0) < Len(list)

\* the command lines: no argument, a path, and two arguments
ChooseArgs ==
  { << "chip8" >>, << "chip8", "roms/TETRIS" >>, << "chip8", "roms/TETRIS", "-v" >> }

\* the files of ./c8games and the invalid choices followed
MaxGames == 3
MaxPrompts == 2

\* the lines typed, of up to two characters and the newline, and the end of
\* the input
Typed == {"0", "1", "2", "3", "4", "9", " ", "\t", "\r", "x", "+", "-"}
Lines ==
  { << >>, << "\n" >> }
    \cup { << a, "\n" >> : a \in Typed }
    \cup { << a, b, "\n" >> : a \in Typed, b \in Typed }
    \cup { USIZE_MAX \o << "\r", "\n" >>,
           << "0", "0" >> \o USIZE_MAX \o << "\n" >>,
           SubSeq(USIZE_MAX, 1, 19) \o << "6", "\n" >>,
           SubSeq(USIZE_MAX, 1, 19) \o << "6", "x", "\n" >>,
           USIZE_MAX \o << "x", "\n" >>,
           USIZE_MAX \o << "0", "\n" >>,
           << "4", "2", "9", "4", "9", "6", "7", "2", "9", "6", "\n" >> }

ChooseChoose == ChooseGame(ChooseArgs)

\* fs::read_dir("./c8games").unwrap(), which panics before anything is
\* printed when the directory cannot be read, then the heading and the listing
ReadDir ==
  /\ host_pc = "read_dir"
  /\ \/ /\ printed' = Append(printed,
                  << "panicked", "called Result::unwrap() on an Err value" >>)
        /\ host_pc' = "panic"
        /\ games' = games
     \/ \E n \in 0..MaxGames, end \in DirEnds :
          LET l == list_games(dir_entries(n, end), 1,
                              [printed |-> Append(printed, << "Choose a game from the list: " >>),
                               games |-> << >>, i |-> 0, panic |-> "none"],
                              overflow_checks)
          IN /\ games' = l.games
             /\ IF l.panic = "none"
                THEN printed' = l.printed /\ host_pc' = "read_line"
                ELSE printed' = Append(l.printed, << "panicked", l.panic >>)
                     /\ host_pc' = "panic"
  /\ UNCHANGED << args, game_path, polled, frame_tick, frames, ticks_made,
                  timer_ticks_made, canvas >>
  /\ UNCHANGED machine_vars

\* one turn of the loop: read_line, which gives a line or the Err of an input
\* that cannot be read, then trim, parse, the test and the return
ReadLine ==
  /\ host_pc = "read_line"
  /\ Len(printed) < 1 + Len(games) + MaxPrompts
  /\ \E line \in Lines \cup {<< "Err" >>} :
       LET choice == parse(trim(line))
       IN IF line = << "Err" >>
          THEN /\ printed' = Append(printed,
                     << "panicked", "called Result::unwrap() on an Err value", "read_line" >>)
               /\ host_pc' = "panic"
               /\ game_path' = game_path
          ELSE IF choice.kind # "Ok"
          THEN /\ printed' = Append(printed,
                     << "panicked", "called Result::unwrap() on an Err value",
                        choice.kind >>)
               /\ host_pc' = "panic"
               /\ game_path' = game_path
          ELSE IF choice_gt_len(choice.digits, games)
          THEN /\ printed' = Append(printed,
                     << "Invalid choice. Please choose a valid game number." >>)
               /\ host_pc' = host_pc
               /\ game_path' = game_path
          ELSE IF choose_index(games, choice.digits)
          THEN /\ game_path' = games[digits_value(choice.digits, 0) + 1]
               /\ host_pc' = "read_game_rom"
               /\ printed' = printed
          ELSE /\ printed' = Append(printed,
                     << "panicked", "index out of bounds", Len(games),
                        digits_value(choice.digits, 0) >>)
               /\ host_pc' = "panic"
               /\ game_path' = game_path
  /\ UNCHANGED << args, games, polled, frame_tick, frames, ticks_made,
                  timer_ticks_made, canvas >>
  /\ UNCHANGED machine_vars

NextChoose == NewManager \/ ChooseChoose \/ ReadDir \/ ReadLine

SpecChoose == Init /\ [][NextChoose]_vars

\* C24: with no path on the command line choose_game returns only a path of
\* the list it printed, and a number typed that is no index of the list is
\* answered with "Invalid choice" and a new prompt: the list is never indexed
\* out of its range.
C24_ChoiceInList ==
  /\ (host_pc = "read_game_rom" /\ Len(args) # 2) =>
       \E k \in 1..Len(games) : game_path = games[k]
  /\ \A k \in 1..Len(printed) :
       printed[k][1] = "panicked" => printed[k][2] # "index out of bounds"


====
